---- MODULE Spec2Model ----
(***************************************************************************)
(* State-machine model of the k8s-controller command line tool: the        *)
(* "list deployments" command (cmd/list.go), the "connection" command      *)
(* (cmd/connection.go) and the k8s client package (pkg/k8s/client.go).     *)
(* Spec runs the two commands and Client.TestConnection; SpecCalls calls   *)
(* single functions of the two packages directly, as their tests do.       *)
(*                                                                         *)
(* Strings that the code inspects character by character (namespaces,     *)
(* image references) are sequences of one-character strings.  Strings the  *)
(* code only compares or passes on (formats, paths, context names) are     *)
(* TLA+ strings.  An error is a sequence of layers, outermost first; a     *)
(* layer is the sequence of message tokens that layer contributes, so the  *)
(* text of fmt.Errorf("prefix: %w", err) is the prefix followed by the     *)
(* text of err, and Unwrap drops the first layer.  Time is in seconds.     *)
(***************************************************************************)
EXTENDS Integers, Sequences, FiniteSets, TLC

VARIABLES
    cmd,            \* which entry point runs: "list", "connection", "caller",
                    \* or the name of a function that is called directly
    rev,            \* revision of pkg/k8s: "stat" (client.go) or "rules"
    outputFormat,   \* flag --output
    namespace,      \* flag --namespace
    labelSelector,  \* flag --selector
    kubeconfigPath, \* flag --kubeconfig
    contextName,    \* flag --context
    timeoutSeconds, \* flag --timeout
    fieldSelector,  \* ListDeploymentsOptions.FieldSelector of a direct caller
    arg,            \* argument of a function called directly that no flag holds
    env,            \* process environment: in-cluster, KUBECONFIG, HOME, files
    stdoutOK,       \* whether writes to os.Stdout succeed
    pc,             \* position of the running command
    now,            \* wall clock
    ctx,            \* the context.Context handed to the client calls
    client,         \* "none", "open": the *k8s.Client of this invocation
    resolved,       \* result of LoadKubeconfig (config, error, files consulted)
    response,       \* raw items of the last deployment list response
    cause,          \* error the last API call returned / the classifier was given
    deployments,    \* []k8s.DeploymentInfo fetched by ListDeployments
    err,            \* error value the command is returning
    stdout,         \* what has been written to os.Stdout
    events,         \* history of the externally visible steps, in order
    apiCalls,       \* history of the network calls issued, in order
    result,         \* value returned by a function called directly
    exitCode        \* -1 while running, else the process exit code

vars == <<cmd, rev, outputFormat, namespace, labelSelector, kubeconfigPath,
          contextName, timeoutSeconds, fieldSelector, arg, env, stdoutOK, pc, now,
          ctx, client, resolved, response, cause, deployments, err, stdout, events,
          apiCalls, result, exitCode>>

\* the inputs of one invocation: no step changes them
flagVars == <<cmd, rev, outputFormat, namespace, labelSelector, kubeconfigPath,
              contextName, timeoutSeconds, fieldSelector, arg, env, stdoutOK>>

----------------------------------------------------------------------------
(* Bounds of the model *)

\* largest --timeout value tried, and largest caller deadline, in seconds
MaxTimeout == 12
\* longest time one network call or client construction may take, in seconds
MaxLatency == 11
\* largest number of raw deployments in one API response
MaxItems == 2

----------------------------------------------------------------------------
(* Program constants *)

\* the derived timeout of Client.TestConnection
ConnTestTimeout == 10
\* the longest valid namespace name
MaxNamespaceLen == 63

----------------------------------------------------------------------------
(* Generic helpers *)

Min(a, b) == IF a <= b THEN a ELSE b

Range(s) == {s[i] : i \in 1..Len(s)}

RECURSIVE Flatten(_)
Flatten(ss) == IF ss = <<>> THEN <<>> ELSE Head(ss) \o Flatten(Tail(ss))

\* p is a prefix of s
IsPrefix(p, s) == Len(p) <= Len(s) /\ SubSeq(s, 1, Len(p)) = p

\* number of occurrences of e in the sequence s
Count(s, e) == Cardinality({i \in 1..Len(s) : s[i] = e})

\* position of the first occurrence of e in s, 0 when absent
FirstIndex(s, e) ==
    IF e \in Range(s) THEN CHOOSE i \in 1..Len(s) : s[i] = e /\ \A j \in 1..(i-1) : s[j] # e
    ELSE 0

----------------------------------------------------------------------------
(* Errors *)

NoError == <<>>

\* errors.New / fmt.Errorf without %w
NewError(tokens) == <<tokens>>

\* fmt.Errorf(prefix + "%w", e)
Wrap(prefix, e) == <<prefix>> \o e

\* err.Error()
ErrorText(e) == Flatten(e)

\* errors.Unwrap
Unwrap(e) == Tail(e)

\* strings.Contains(err.Error(), phrase) for the phrases the code looks for,
\* each of which is one token of the messages of the model
TextContains(e, phrase) == phrase \in Range(ErrorText(e))

----------------------------------------------------------------------------
(* Validator: cmd/list.go *)

LowerLetters == {"a","b","c","d","e","f","g","h","i","j","k","l","m",
                 "n","o","p","q","r","s","t","u","v","w","x","y","z"}
Digits == {"0","1","2","3","4","5","6","7","8","9"}

\* validateOutputFormat that ignores the case of the first letter or of all
validateOutputFormatAnyCase(format) ==
    IF format \in {"table", "json", "yaml", "Table", "Json", "Yaml", "TABLE", "JSON", "YAML"}
    THEN NoError
    ELSE NewError(<<"unsupported format '", format, "', must be one of: table, json, yaml">>)

validateOutputFormat(format) ==
    IF format \in {"table", "json", "yaml"} THEN NoError
    ELSE NewError(<<"unsupported format '", format, "', must be one of: table, json, yaml">>)

isValidNamespaceChar(r) == r \in LowerLetters \/ r \in Digits \/ r = "-"

\* the bytes of a character in UTF-8: the samples are ASCII but for U+00E9
ByteWidth(r) == IF r = "U+00E9" THEN 2 ELSE 1

\* Go's len of a string: the bytes of its UTF-8 encoding, one for each
\* character and one more for each character two bytes wide
ByteLen(str) == Len(str) + Cardinality({i \in 1..Len(str) : ByteWidth(str[i]) = 2})

validateNamespaceLength(ns) ==
    IF ByteLen(ns) > MaxNamespaceLen
    THEN NewError(<<"namespace name too long (max 63 characters)">>)
    ELSE NoError

validateCharacter(r) ==
    IF isValidNamespaceChar(r) THEN NoError
    ELSE NewError(<<"namespace name contains invalid character '", r,
                    "' (must be lowercase alphanumeric with hyphens)">>)

\* validateHyphenPlacement that looks at the first position only
validateHyphenPlacementStartOnly(r, pos, length) ==
    IF r = "-" /\ pos = 0
    THEN NewError(<<"namespace name cannot start or end with hyphen">>)
    ELSE NoError

validateHyphenPlacement(r, pos, length) ==
    IF r = "-" /\ (pos = 0 \/ pos = length - 1)
    THEN NewError(<<"namespace name cannot start or end with hyphen">>)
    ELSE NoError

\* the loop of validateNamespaceCharacters once k characters are done; the
\* index `range` yields for the next one is its byte offset
RECURSIVE validateNamespaceCharactersFrom(_, _)
validateNamespaceCharactersFrom(ns, k) ==
    IF k >= Len(ns) THEN NoError
    ELSE LET r == ns[k + 1]
             i == ByteLen(SubSeq(ns, 1, k))
         IN  IF validateCharacter(r) # NoError THEN validateCharacter(r)
             ELSE IF validateHyphenPlacement(r, i, ByteLen(ns)) # NoError
                  THEN validateHyphenPlacement(r, i, ByteLen(ns))
             ELSE validateNamespaceCharactersFrom(ns, k + 1)

validateNamespaceCharacters(ns) == validateNamespaceCharactersFrom(ns, 0)

\* validateNamespace that looks at the characters before the length
validateNamespaceCharactersFirst(ns) ==
    IF ns = <<>> THEN NoError
    ELSE IF validateNamespaceCharacters(ns) # NoError THEN validateNamespaceCharacters(ns)
    ELSE validateNamespaceLength(ns)

validateNamespace(ns) ==
    IF ns = <<>> THEN NoError
    ELSE IF validateNamespaceLength(ns) # NoError THEN validateNamespaceLength(ns)
    ELSE validateNamespaceCharacters(ns)

\* validateListParameters without the namespace check
validateListParametersFormatOnly(format, ns) ==
    IF validateOutputFormat(format) # NoError
    THEN Wrap(<<"invalid output format: ">>, validateOutputFormat(format))
    ELSE NoError

validateListParameters(format, ns) ==
    IF validateOutputFormat(format) # NoError
    THEN Wrap(<<"invalid output format: ">>, validateOutputFormat(format))
    ELSE IF validateNamespace(ns) # NoError
    THEN Wrap(<<"invalid namespace: ">>, validateNamespace(ns))
    ELSE NoError

----------------------------------------------------------------------------
(* Process environment and kubeconfig files *)

ExplicitFile == "/x/config"
EnvFile == "/env/config"
HomeFile == "/home/u/.kube/config"
LocalFile == "./kubeconfig"
RelativeHomeFile == ".kube/config"
Paths == {ExplicitFile, EnvFile, HomeFile, LocalFile, RelativeHomeFile}

FileStates == {"absent", "unreadable", "malformed", "ok"}

\* what a well-formed kubeconfig file of the model contains
FileContexts == {"dev", "prod"}
FileCurrentContext == "prod"
FileCluster == [c \in FileContexts |-> IF c = "dev" THEN "dev-cluster" ELSE "prod-cluster"]

NoConfig == [source |-> "none", paths |-> {}, context |-> "", cluster |-> ""]
InClusterConfig == [source |-> "in-cluster", paths |-> {}, context |-> "", cluster |-> ""]

\* filepath.Join(home, ".kube", "config") over the homes of the model
JoinKubeConfig(home) == IF home = "" THEN RelativeHomeFile ELSE HomeFile

\* getDefaultKubeconfigPath of the "stat" revision
getDefaultKubeconfigPath(e) ==
    IF e.KUBECONFIG # "" THEN e.KUBECONFIG
    ELSE IF e.HOME # "" THEN JoinKubeConfig(e.HOME)
    ELSE LocalFile

\* clientcmd.NewDefaultClientConfigLoadingRules().Precedence: the files of
\* $KUBECONFIG, else the recommended file under the home directory
RulesPrecedence(e) ==
    IF e.KUBECONFIG # "" THEN <<e.KUBECONFIG>> ELSE <<JoinKubeConfig(e.HOME)>>

\* the error of loading one file, NoError when it loads or is skipped
LoadFileError(e, path) ==
    CASE e.files[path] = "unreadable" ->
            NewError(<<"error loading config file \"", path, "\": open ", path, ": permission denied">>)
      [] e.files[path] = "malformed" ->
            NewError(<<"error loading config file \"", path, "\": yaml: unmarshal error">>)
      [] OTHER -> NoError

RECURSIVE FirstLoadError(_, _)
FirstLoadError(e, candidates) ==
    IF candidates = <<>> THEN NoError
    ELSE IF LoadFileError(e, Head(candidates)) # NoError THEN LoadFileError(e, Head(candidates))
    ELSE FirstLoadError(e, Tail(candidates))

\* kubeConfig.ClientConfig() of a deferred-loading client config whose rules
\* have the given ExplicitPath ("" = unset) and whose overrides name the
\* given context ("" = unset)
ClientConfig(e, explicitPath, contextOverride) ==
    LET candidates == IF explicitPath # "" THEN <<explicitPath>> ELSE RulesPrecedence(e)
        merged == {p \in Range(candidates) : e.files[p] = "ok"}
        context == IF contextOverride # "" THEN contextOverride ELSE FileCurrentContext
    IN  IF explicitPath # "" /\ e.files[explicitPath] = "absent"
        THEN [config |-> NoConfig, consulted |-> {explicitPath},
              err |-> NewError(<<"stat ", explicitPath, ": no such file or directory">>)]
        ELSE IF FirstLoadError(e, candidates) # NoError
        THEN [config |-> NoConfig, consulted |-> Range(candidates),
              err |-> FirstLoadError(e, candidates)]
        ELSE IF merged = {}
        THEN [config |-> NoConfig, consulted |-> Range(candidates),
              err |-> NewError(<<"invalid configuration: no configuration has been provided">>)]
        ELSE IF context \notin FileContexts
        THEN [config |-> NoConfig, consulted |-> Range(candidates),
              err |-> NewError(<<"context \"", context, "\" does not exist">>)]
        ELSE [config |-> [source |-> "kubeconfig", paths |-> merged,
                          context |-> context, cluster |-> FileCluster[context]],
              consulted |-> Range(candidates), err |-> NoError]

WrapLoad(r) ==
    IF r.err = NoError THEN r
    ELSE [r EXCEPT !.err = Wrap(<<"failed to load kubeconfig: ">>, r.err)]

\* LoadKubeconfig that lets an explicit path win over in-cluster configuration
LoadKubeconfigRulesExplicitFirst(e, config) ==
    IF config.KubeconfigPath # ""
    THEN WrapLoad(ClientConfig(e, config.KubeconfigPath, config.Context))
    ELSE IF e.inCluster
    THEN [config |-> InClusterConfig, consulted |-> {}, err |-> NoError]
    ELSE WrapLoad(ClientConfig(e, "", config.Context))

\* LoadKubeconfig that falls back to the default locations when the explicit
\* path cannot be loaded
LoadKubeconfigRulesFallback(e, config) ==
    IF e.inCluster
    THEN [config |-> InClusterConfig, consulted |-> {}, err |-> NoError]
    ELSE IF ClientConfig(e, config.KubeconfigPath, config.Context).err # NoError
    THEN WrapLoad(ClientConfig(e, "", config.Context))
    ELSE ClientConfig(e, config.KubeconfigPath, config.Context)

\* LoadKubeconfig, revision "rules": client-go's loading rules decide the file
LoadKubeconfigRules(e, config) ==
    IF e.inCluster
    THEN [config |-> InClusterConfig, consulted |-> {}, err |-> NoError]
    ELSE WrapLoad(ClientConfig(e, config.KubeconfigPath, config.Context))

\* LoadKubeconfig, revision "stat": the path is chosen and stat'ed first
LoadKubeconfigStat(e, config) ==
    LET path == IF config.KubeconfigPath = "" THEN getDefaultKubeconfigPath(e)
                ELSE config.KubeconfigPath
    IN  IF e.inCluster
        THEN [config |-> InClusterConfig, consulted |-> {}, err |-> NoError]
        ELSE IF e.files[path] = "absent"
        THEN [config |-> NoConfig, consulted |-> {path},
              err |-> NewError(<<"kubeconfig file not found at ", path>>)]
        ELSE WrapLoad(ClientConfig(e, path, config.Context))

LoadKubeconfig(r, e, config) ==
    IF r = "stat" THEN LoadKubeconfigStat(e, config) ELSE LoadKubeconfigRules(e, config)

\* CreateClient: resolution, then kubernetes.NewForConfig, which accepts the
\* resolved configuration or not (clientsetOK).  `loaded` is what
\* LoadKubeconfig returned, `err` the error of CreateClient itself.
CreateClient(r, e, config, clientsetOK) ==
    LET loaded == LoadKubeconfig(r, e, config)
    IN  IF loaded.err # NoError
        THEN [loaded |-> loaded, err |-> Wrap(<<"failed to load kubeconfig: ">>, loaded.err)]
        ELSE IF ~clientsetOK
        THEN [loaded |-> loaded,
              err |-> Wrap(<<"failed to create Kubernetes client: ">>,
                           NewError(<<"invalid rest config">>))]
        ELSE [loaded |-> loaded, err |-> NoError]

----------------------------------------------------------------------------
(* context.Context *)

Background == [hasDeadline |-> FALSE, deadline |-> 0, cancelled |-> FALSE]

\* context.WithTimeout(parent, d) called at time t: never later than the parent
WithTimeout(parent, t, d) ==
    [hasDeadline |-> TRUE,
     deadline |-> IF parent.hasDeadline THEN Min(parent.deadline, t + d) ELSE t + d,
     cancelled |-> parent.cancelled]

\* context.WithCancel(parent) followed by cancel()
Cancelled(parent) == [parent EXCEPT !.cancelled = TRUE]

\* ctx.Err() # nil at time t
Done(c, t) == c.cancelled \/ (c.hasDeadline /\ c.deadline <= t)

CtxError(c) ==
    IF c.cancelled THEN NewError(<<"context canceled">>)
    ELSE NewError(<<"context deadline exceeded">>)

----------------------------------------------------------------------------
(* A network call as the API server and the transport answer it *)

\* the ways the API can fail a request
ApiFailures == {"refused", "forbidden", "notfound", "internal"}

ApiError(kind, ns) ==
    CASE kind = "refused" -> NewError(<<"dial tcp 127.0.0.1:6443: connect: ", "connection refused">>)
      [] kind = "forbidden" -> NewError(<<"deployments.apps is ", "forbidden", ": user cannot list resource">>)
      [] kind = "notfound" -> NewError(<<"namespaces \"", ns, "\" ", "not found">>)
      [] OTHER -> NewError(<<"an error on the server has prevented the request from succeeding">>)

\* Outcome of a call issued at time t under context c, when the server would
\* answer after `latency` seconds with `answer` ("ok" or a failure): the
\* client gives up as soon as c is done.
CallReturn(c, t, latency, answer, ns) ==
    IF Done(c, t) THEN [at |-> t, err |-> CtxError(c)]
    ELSE IF c.hasDeadline /\ t + latency > c.deadline
    THEN [at |-> c.deadline, err |-> NewError(<<"context deadline exceeded">>)]
    ELSE [at |-> t + latency,
          err |-> IF answer = "ok" THEN NoError ELSE ApiError(answer, ns)]

----------------------------------------------------------------------------
(* Client.TestConnection *)

\* a timeout derived only for a context without a deadline
NeedsDerivedTimeoutOnlyWithoutDeadline(c, t) == ~c.hasDeadline

\* the condition under which TestConnection derives its own timeout
NeedsDerivedTimeout(c, t) ==
    ~c.hasDeadline \/ c.deadline - t > ConnTestTimeout

\* the context handed to the namespace listing
TestCtx(r, c, t) ==
    IF r = "stat" THEN WithTimeout(c, t, ConnTestTimeout)
    ELSE IF NeedsDerivedTimeout(c, t) THEN WithTimeout(c, t, ConnTestTimeout)
    ELSE c

\* the request record of the limit-1 namespace listing
NamespaceListCall(r, c, t) ==
    [op |-> "namespaces.list", namespace |-> <<>>, labelSelector |-> "",
     fieldSelector |-> "", limit |-> 1, issuedAt |-> t, ctx |-> TestCtx(r, c, t)]

\* the request record of Discovery().ServerVersion(): it takes no context
ServerVersionCall(t) ==
    [op |-> "serverVersion", namespace |-> <<>>, labelSelector |-> "",
     fieldSelector |-> "", limit |-> 0, issuedAt |-> t, ctx |-> Background]

----------------------------------------------------------------------------
(* The cluster: raw deployments as the API returns them *)

NsDefault == <<"d","e","f","a","u","l","t">>
NsKube == <<"k","u","b","e">>

ImgNginx == <<"n","g","i","n","x">>
ImgRedis == <<"r","e","d","i","s">>

\* the i-th raw deployment of the cluster; created is its creation timestamp
RawDeployment(i) ==
    [name |-> <<"app-", ToString(i)>>,
     namespace |-> IF i % 2 = 1 THEN NsDefault ELSE NsKube,
     replicas |-> IF i % 2 = 1 THEN [set |-> TRUE, value |-> 3]
                  ELSE [set |-> FALSE, value |-> 0],
     availableReplicas |-> 2,
     readyReplicas |-> 1,
     created |-> 0 - 3600 * ((i + 1) \div 2),
     containers |-> IF i % 2 = 1 THEN <<ImgNginx, ImgNginx>> ELSE <<ImgRedis>>,
     initContainers |-> IF i % 2 = 1 THEN <<<<>>, ImgRedis>> ELSE <<>>]

\* the first n deployments of the cluster, in API order
ClusterItems(n) == [i \in 1..n |-> RawDeployment(i)]

\* what a list scoped to namespace ns ("" = all) returns, in API order
RECURSIVE InNamespace(_, _)
InNamespace(items, ns) ==
    IF items = <<>> THEN <<>>
    ELSE (IF ns = <<>> \/ Head(items).namespace = ns THEN <<Head(items)>> ELSE <<>>)
         \o InNamespace(Tail(items), ns)

----------------------------------------------------------------------------
(* RecordTransformer: pkg/k8s/client.go *)

\* collectContainerImages without the test for the empty image name
collectContainerImagesKeepEmpty(containers, imageSet) ==
    imageSet \cup {containers[i] : i \in 1..Len(containers)}

\* collectContainerImages: the non-empty images of a container list
collectContainerImages(containers, imageSet) ==
    imageSet \cup {containers[i] : i \in {j \in 1..Len(containers) : containers[j] # <<>>}}

\* convertImageSetToSlice ranges over a Go map, whose iteration order is
\* unspecified: every ordering of the set is a possible result
convertImageSetToSlice(imageSet) ==
    {s \in [1..Cardinality(imageSet) -> imageSet] :
        \A i, j \in 1..Cardinality(imageSet) : i # j => s[i] # s[j]}

\* the possible results of extractImages
extractImages(deployment) ==
    convertImageSetToSlice(
        collectContainerImages(deployment.initContainers,
            collectContainerImages(deployment.containers, {})))

\* createDeploymentInfo with the replica count Kubernetes defaults to
createDeploymentInfoDefaultOne(deployment, t, images) ==
    [name |-> deployment.name,
     namespace |-> deployment.namespace,
     replicas |-> [desired |-> IF deployment.replicas.set THEN deployment.replicas.value ELSE 1,
                   available |-> deployment.availableReplicas,
                   ready |-> deployment.readyReplicas],
     age |-> t - deployment.created,
     images |-> images,
     createdAt |-> deployment.created]

\* createDeploymentInfo with the image slice that extractImages returned
createDeploymentInfo(deployment, t, images) ==
    [name |-> deployment.name,
     namespace |-> deployment.namespace,
     replicas |-> [desired |-> IF deployment.replicas.set THEN deployment.replicas.value ELSE 0,
                   available |-> deployment.availableReplicas,
                   ready |-> deployment.readyReplicas],
     age |-> t - deployment.created,
     images |-> images,
     createdAt |-> deployment.created]

\* convertToDeploymentInfo that skips deployments without a replica count
RECURSIVE convertToDeploymentInfoSkipUnset(_, _)
convertToDeploymentInfoSkipUnset(items, t) ==
    IF items = <<>> THEN {<<>>}
    ELSE IF ~Head(items).replicas.set THEN convertToDeploymentInfoSkipUnset(Tail(items), t)
    ELSE {<<createDeploymentInfo(Head(items), t, imgs)>> \o rest :
            imgs \in extractImages(Head(items)),
            rest \in convertToDeploymentInfoSkipUnset(Tail(items), t)}

\* the possible results of convertToDeploymentInfo: one record per raw item,
\* in order, all with the same `now`
RECURSIVE convertToDeploymentInfo(_, _)
convertToDeploymentInfo(items, t) ==
    IF items = <<>> THEN {<<>>}
    ELSE {<<createDeploymentInfo(Head(items), t, imgs)>> \o rest :
            imgs \in extractImages(Head(items)),
            rest \in convertToDeploymentInfo(Tail(items), t)}

\* fetchDeploymentList that always lists cluster-wide
DeploymentListCallAllNamespaces(opts, c, t) ==
    [op |-> "deployments.list", namespace |-> <<>>,
     labelSelector |-> opts.LabelSelector, fieldSelector |-> opts.FieldSelector,
     limit |-> 0, issuedAt |-> t, ctx |-> c]

\* the request record of fetchDeploymentList
DeploymentListCall(opts, c, t) ==
    [op |-> "deployments.list", namespace |-> opts.Namespace,
     labelSelector |-> opts.LabelSelector, fieldSelector |-> opts.FieldSelector,
     limit |-> 0, issuedAt |-> t, ctx |-> c]

----------------------------------------------------------------------------
(* ErrorClassifier: cmd/list.go *)

\* the classifier that looks for "not found" before "forbidden"
enhanceK8sErrorNotFoundFirst(e, ns) ==
    IF TextContains(e, "connection refused")
    THEN Wrap(<<"failed to connect to Kubernetes API server - is the cluster running and accessible? ">>, e)
    ELSE IF TextContains(e, "not found") /\ ns # <<>>
    THEN Wrap(<<"namespace '", ns, "' ", "not found", ": ">>, e)
    ELSE IF TextContains(e, "forbidden")
    THEN Wrap(<<"insufficient permissions to list deployments - check your RBAC configuration: ">>, e)
    ELSE Wrap(<<"failed to list deployments: ">>, e)

\* the classifier whose generic branch formats the error with %v
enhanceK8sErrorGenericUnwrapped(e, ns) ==
    IF TextContains(e, "connection refused")
    THEN Wrap(<<"failed to connect to Kubernetes API server - is the cluster running and accessible? ">>, e)
    ELSE IF TextContains(e, "forbidden")
    THEN Wrap(<<"insufficient permissions to list deployments - check your RBAC configuration: ">>, e)
    ELSE IF TextContains(e, "not found") /\ ns # <<>>
    THEN Wrap(<<"namespace '", ns, "' ", "not found", ": ">>, e)
    ELSE NewError(<<"failed to list deployments: ">> \o ErrorText(e))

\* enhanceK8sError; ns is the package variable `namespace` it reads
enhanceK8sError(e, ns) ==
    IF TextContains(e, "connection refused")
    THEN Wrap(<<"failed to connect to Kubernetes API server - is the cluster running and accessible? ">>, e)
    ELSE IF TextContains(e, "forbidden")
    THEN Wrap(<<"insufficient permissions to list deployments - check your RBAC configuration: ">>, e)
    ELSE IF TextContains(e, "not found") /\ ns # <<>>
    THEN Wrap(<<"namespace '", ns, "' ", "not found", ": ">>, e)
    ELSE Wrap(<<"failed to list deployments: ">>, e)

----------------------------------------------------------------------------
(* Formatter: cmd/list.go *)

Minute == 60
Hour == 3600

\* integer division truncating toward zero, as Go's int() conversion does
TruncDiv(a, b) == IF a >= 0 THEN a \div b ELSE 0 - ((0 - a) \div b)

\* formatAge whose unit thresholds are inclusive
formatAgeInclusive(duration) ==
    IF duration <= Minute THEN <<duration, "s">>
    ELSE IF duration <= Hour THEN <<TruncDiv(duration, Minute), "m">>
    ELSE IF duration <= 24 * Hour THEN <<TruncDiv(duration, Hour), "h">>
    ELSE <<TruncDiv(duration, 24 * Hour), "d">>

\* formatAge of a duration in whole seconds: number and unit letter
formatAge(duration) ==
    IF duration < Minute THEN <<duration, "s">>
    ELSE IF duration < Hour THEN <<TruncDiv(duration, Minute), "m">>
    ELSE IF duration < 24 * Hour THEN <<TruncDiv(duration, Hour), "h">>
    ELSE <<TruncDiv(duration, 24 * Hour), "d">>

\* truncateString that appends the dots to the first maxLen characters
truncateStringAppend(str, maxLen) ==
    IF Len(str) <= maxLen THEN str
    ELSE IF maxLen <= 3 THEN SubSeq(str, 1, maxLen)
    ELSE SubSeq(str, 1, maxLen) \o <<".", ".", ".">>

truncateString(str, maxLen) ==
    IF Len(str) <= maxLen THEN str
    ELSE IF maxLen <= 3 THEN SubSeq(str, 1, maxLen)
    ELSE SubSeq(str, 1, maxLen - 3) \o <<".", ".", ".">>

\* strings.Join(parts, ",")
RECURSIVE JoinComma(_)
JoinComma(parts) ==
    IF parts = <<>> THEN <<>>
    ELSE IF Len(parts) = 1 THEN Head(parts)
    ELSE Head(parts) \o <<",">> \o JoinComma(Tail(parts))

\* formatImages that shows every image of a list of up to two only
formatImagesFewUpToTwo(images) ==
    IF Len(images) = 0 THEN <<"<none>">>
    ELSE IF Len(images) = 1 THEN truncateString(images[1], 40)
    ELSE IF Len(images) <= 2
    THEN JoinComma([i \in 1..Len(images) |-> truncateString(images[i], 30)])
    ELSE truncateString(images[1], 25) \o <<",">> \o truncateString(images[2], 25)
         \o <<" +", ToString(Len(images) - 2), " more">>

formatImages(images) ==
    IF Len(images) = 0 THEN <<"<none>">>
    ELSE IF Len(images) = 1 THEN truncateString(images[1], 40)
    ELSE IF Len(images) <= 3
    THEN JoinComma([i \in 1..Len(images) |-> truncateString(images[i], 30)])
    ELSE truncateString(images[1], 25) \o <<",">> \o truncateString(images[2], 25)
         \o <<" +", ToString(Len(images) - 2), " more">>

HeaderAllNamespaces == <<"NAMESPACE", "NAME", "READY", "UP-TO-DATE", "AVAILABLE", "AGE", "IMAGES">>
HeaderOneNamespace == <<"NAME", "READY", "UP-TO-DATE", "AVAILABLE", "AGE", "IMAGES">>

\* the header line of writeTableHeader, as its tab-separated cells
writeTableHeader(ns) == IF ns = <<>> THEN HeaderAllNamespaces ELSE HeaderOneNamespace

\* writeDeploymentRow that prints the namespace cell whenever the record lies
\* outside the namespace asked for
writeDeploymentRowByRecordNamespace(ns, d) ==
    LET readyStatus == <<d.replicas.ready, "/", d.replicas.desired>>
    IN  IF d.namespace # ns
        THEN <<d.namespace, d.name, readyStatus, d.replicas.ready,
               d.replicas.available, formatAge(d.age), formatImages(d.images)>>
        ELSE <<d.name, readyStatus, d.replicas.ready,
               d.replicas.available, formatAge(d.age), formatImages(d.images)>>

\* the line of writeDeploymentRow, as its tab-separated cells
writeDeploymentRow(ns, d) ==
    LET readyStatus == <<d.replicas.ready, "/", d.replicas.desired>>
    IN  IF ns = <<>>
        THEN <<d.namespace, d.name, readyStatus, d.replicas.ready,
               d.replicas.available, formatAge(d.age), formatImages(d.images)>>
        ELSE <<d.name, readyStatus, d.replicas.ready,
               d.replicas.available, formatAge(d.age), formatImages(d.images)>>

\* formatDeploymentTable without the early return for an empty list
formatDeploymentTableNoEmptyCase(ns, ds) ==
    <<[line |-> "header", cells |-> writeTableHeader(ns)]>>
    \o [i \in 1..Len(ds) |-> [line |-> "row", cells |-> writeDeploymentRow(ns, ds[i])]]

\* the lines formatDeploymentTable hands to os.Stdout (at Flush, or at once
\* for the "No deployments found." line)
formatDeploymentTable(ns, ds) ==
    IF Len(ds) = 0 THEN <<[line |-> "text", cells |-> <<"No deployments found.">>]>>
    ELSE <<[line |-> "header", cells |-> writeTableHeader(ns)]>>
         \o [i \in 1..Len(ds) |-> [line |-> "row", cells |-> writeDeploymentRow(ns, ds[i])]]

\* A rendered document is a tree: a scalar with the tokens of its text, a
\* list of nodes, or a map of keyed nodes in the order they are written.
Scalar(tokens) == [kind |-> "scalar", text |-> tokens]
List(nodes) == [kind |-> "list", items |-> nodes]
Map(fields) == [kind |-> "map", fields |-> fields]
Field(key, node) == [key |-> key, value |-> node]

\* the fields of the rendered structs with their struct tags: the envelope
\* of formatDeploymentJSON / formatDeploymentYAML carries a json resp. a yaml
\* tag on every field, k8s.DeploymentInfo carries json tags only
StructTags ==
    [Kind       |-> [json |-> "kind",       yaml |-> "kind"],
     APIVersion |-> [json |-> "apiVersion", yaml |-> "apiVersion"],
     Items      |-> [json |-> "items",      yaml |-> "items"],
     Count      |-> [json |-> "count",      yaml |-> "count"],
     Name       |-> [json |-> "name",       yaml |-> ""],
     Namespace  |-> [json |-> "namespace",  yaml |-> ""],
     Replicas   |-> [json |-> "replicas",   yaml |-> ""],
     Desired    |-> [json |-> "desired",    yaml |-> ""],
     Available  |-> [json |-> "available",  yaml |-> ""],
     Ready      |-> [json |-> "ready",      yaml |-> ""],
     Age        |-> [json |-> "age",        yaml |-> ""],
     Images     |-> [json |-> "images",     yaml |-> ""],
     CreatedAt  |-> [json |-> "created_at", yaml |-> ""]]

\* strings.ToLower over the field names above
ToLower(name) ==
    CASE name = "Kind" -> "kind"
      [] name = "APIVersion" -> "apiversion"
      [] name = "Items" -> "items"
      [] name = "Count" -> "count"
      [] name = "Name" -> "name"
      [] name = "Namespace" -> "namespace"
      [] name = "Replicas" -> "replicas"
      [] name = "Desired" -> "desired"
      [] name = "Available" -> "available"
      [] name = "Ready" -> "ready"
      [] name = "Age" -> "age"
      [] name = "Images" -> "images"
      [] name = "CreatedAt" -> "createdat"

\* the key under which an encoder writes a struct field: encoding/json uses
\* the json tag, else the field name; yaml.v3 uses the yaml tag, else the
\* lower-cased field name
FieldKey(syntax, name) ==
    IF syntax = "json"
    THEN (IF StructTags[name].json # "" THEN StructTags[name].json ELSE name)
    ELSE (IF StructTags[name].yaml # "" THEN StructTags[name].yaml ELSE ToLower(name))

\* time.Duration.String() of a whole number of seconds
DurationString(d) ==
    LET a == IF d < 0 THEN 0 - d ELSE d
        sign == IF d < 0 THEN <<"-">> ELSE <<>>
        h == a \div Hour
        m == (a % Hour) \div Minute
        sec == a % Minute
    IN  sign \o (IF a >= Hour THEN <<ToString(h), "h", ToString(m), "m", ToString(sec), "s">>
                 ELSE IF a >= Minute THEN <<ToString(m), "m", ToString(sec), "s">>
                 ELSE <<ToString(sec), "s">>)

\* a time.Duration written as an integer: its count of nanoseconds
DurationNanoseconds(d) ==
    IF d = 0 THEN <<"0">> ELSE <<ToString(d), "000000000">>

\* how an encoder writes a time.Duration: encoding/json as the integer,
\* yaml.v3 as the string of Duration.String()
EncodeDuration(syntax, d) ==
    Scalar(IF syntax = "json" THEN DurationNanoseconds(d) ELSE DurationString(d))

\* time.Time in RFC 3339 form, which both encoders write
EncodeTime(t) == Scalar(<<"RFC3339 of second ", ToString(t)>>)

\* one k8s.DeploymentInfo as the encoder writes it
EncodeDeploymentInfo(syntax, d) ==
    Map(<<Field(FieldKey(syntax, "Name"), Scalar(d.name)),
          Field(FieldKey(syntax, "Namespace"), Scalar(d.namespace)),
          Field(FieldKey(syntax, "Replicas"),
                Map(<<Field(FieldKey(syntax, "Desired"), Scalar(<<ToString(d.replicas.desired)>>)),
                      Field(FieldKey(syntax, "Available"), Scalar(<<ToString(d.replicas.available)>>)),
                      Field(FieldKey(syntax, "Ready"), Scalar(<<ToString(d.replicas.ready)>>))>>)),
          Field(FieldKey(syntax, "Age"), EncodeDuration(syntax, d.age)),
          Field(FieldKey(syntax, "Images"),
                List([i \in 1..Len(d.images) |-> Scalar(d.images[i])])),
          Field(FieldKey(syntax, "CreatedAt"), EncodeTime(d.createdAt))>>)

\* the envelope whose count never looks at the records
EnvelopeFixedCount(syntax, ds) ==
    Map(<<Field(FieldKey(syntax, "Kind"), Scalar(<<"DeploymentList">>)),
          Field(FieldKey(syntax, "APIVersion"), Scalar(<<"apps/v1">>)),
          Field(FieldKey(syntax, "Items"),
                List([i \in 1..Len(ds) |-> EncodeDeploymentInfo(syntax, ds[i])])),
          Field(FieldKey(syntax, "Count"), Scalar(<<ToString(0)>>))>>)

\* the envelope that formatDeploymentJSON and formatDeploymentYAML build and
\* encode
Envelope(syntax, ds) ==
    Map(<<Field(FieldKey(syntax, "Kind"), Scalar(<<"DeploymentList">>)),
          Field(FieldKey(syntax, "APIVersion"), Scalar(<<"apps/v1">>)),
          Field(FieldKey(syntax, "Items"),
                List([i \in 1..Len(ds) |-> EncodeDeploymentInfo(syntax, ds[i])])),
          Field(FieldKey(syntax, "Count"), Scalar(<<ToString(Len(ds))>>))>>)

\* the document formatDeploymentJSON writes
formatDeploymentJSON(ds) == Envelope("json", ds)

\* the document formatDeploymentYAML prints
formatDeploymentYAML(ds) == Envelope("yaml", ds)

\* formatDeploymentOutput that renders an unknown format as a table
formatDeploymentOutputDefaultTable(ds, format, ns, writable) ==
    CASE format = "json" ->
            IF writable
            THEN [out |-> <<[line |-> "json", doc |-> formatDeploymentJSON(ds)]>>,
                  err |-> NoError]
            ELSE [out |-> <<>>, err |-> NewError(<<"write /dev/stdout: file already closed">>)]
      [] format = "yaml" ->
            [out |-> IF writable THEN <<[line |-> "yaml", doc |-> formatDeploymentYAML(ds)]>>
                     ELSE <<>>,
             err |-> NoError]
      [] OTHER ->
            [out |-> IF writable THEN formatDeploymentTable(ns, ds) ELSE <<>>, err |-> NoError]

\* formatDeploymentOutput: what is written to stdout and the error returned,
\* given whether os.Stdout accepts writes.  json returns the encoder's write
\* error; yaml prints with fmt.Print and drops its error; table only logs a
\* failed Flush, and drops the error of the "No deployments found." line.
formatDeploymentOutput(ds, format, ns, writable) ==
    CASE format = "json" ->
            IF writable
            THEN [out |-> <<[line |-> "json", doc |-> formatDeploymentJSON(ds)]>>,
                  err |-> NoError]
            ELSE [out |-> <<>>, err |-> NewError(<<"write /dev/stdout: file already closed">>)]
      [] format = "yaml" ->
            [out |-> IF writable THEN <<[line |-> "yaml", doc |-> formatDeploymentYAML(ds)]>>
                     ELSE <<>>,
             err |-> NoError]
      [] format = "table" ->
            [out |-> IF writable THEN formatDeploymentTable(ns, ds) ELSE <<>>, err |-> NoError]
      [] OTHER ->
            [out |-> <<>>, err |-> NewError(<<"unsupported output format: ", format>>)]

----------------------------------------------------------------------------
(* Inputs of the model *)

NsLeadingHyphen == <<"-", "a">>

Formats == {"table", "json", "yaml", "JSON"}
Namespaces == {<<>>, NsDefault, NsLeadingHyphen}
Selectors == {"", "app=nginx"}
KubeconfigPaths == {"", ExplicitFile}
ContextNames == {"", "dev", "nope"}
Timeouts == {-1, 0, 3, ConnTestTimeout, MaxTimeout}
Latencies == {0, 2, ConnTestTimeout, MaxLatency}

\* the file system: the explicit file in state x, the $KUBECONFIG file in
\* state v, the home file in state h, nothing else
Files(x, v, h) ==
    [p \in Paths |-> CASE p = ExplicitFile -> x
                       [] p = EnvFile -> v
                       [] p = HomeFile -> h
                       [] OTHER -> "absent"]

\* environments: files that the chosen variables do not point at exist and
\* are well-formed, so that a wrong fallback would succeed
Envs ==
    {[inCluster |-> TRUE, KUBECONFIG |-> EnvFile, HOME |-> "/home/u",
      files |-> Files(x, "ok", "ok")] : x \in FileStates}
    \cup {[inCluster |-> FALSE, KUBECONFIG |-> "", HOME |-> "/home/u",
           files |-> Files(x, "ok", h)] : x \in FileStates, h \in {"absent", "ok"}}
    \cup {[inCluster |-> FALSE, KUBECONFIG |-> "", HOME |-> "",
           files |-> Files(x, "ok", "ok")] : x \in FileStates}
    \cup {[inCluster |-> FALSE, KUBECONFIG |-> EnvFile, HOME |-> "/home/u",
           files |-> Files(x, v, "ok")] : x \in FileStates, v \in {"absent", "ok"}}

\* the contexts with which the package's callers invoke TestConnection
\* directly: none, cancelled, and a five second timeout
CallerContexts ==
    {Background, Cancelled(Background), WithTimeout(Background, 0, 5)}

\* before LoadKubeconfig has run
NoResolution == [config |-> NoConfig, consulted |-> {}, err |-> NoError]

----------------------------------------------------------------------------
(* Initial states *)

InitCommon ==
    /\ kubeconfigPath \in KubeconfigPaths
    /\ env \in {e \in Envs : kubeconfigPath = "" => e.files[ExplicitFile] = "ok"}
    /\ contextName \in ContextNames
    /\ now = 0
    /\ resolved = NoResolution
    /\ fieldSelector = ""
    /\ arg = <<>>
    /\ result = <<>>
    /\ response = <<>>
    /\ cause = NoError
    /\ deployments = <<>>
    /\ err = NoError
    /\ stdout = <<>>
    /\ events = <<>>
    /\ apiCalls = <<>>
    /\ exitCode = -1

InitList ==
    /\ cmd = "list"
    /\ rev = "rules"
    /\ outputFormat \in Formats
    /\ namespace \in Namespaces
    /\ labelSelector \in Selectors
    /\ timeoutSeconds \in Timeouts
    /\ stdoutOK \in BOOLEAN
    /\ ctx = Background
    /\ client = "none"
    /\ pc = "validate"
    /\ InitCommon

InitConnection ==
    /\ cmd = "connection"
    /\ rev \in {"stat", "rules"}
    /\ outputFormat = "table"
    /\ namespace = <<>>
    /\ labelSelector = ""
    /\ timeoutSeconds \in Timeouts
    /\ stdoutOK = TRUE
    /\ ctx = Background
    /\ client = "none"
    /\ pc = "conn.create"
    /\ InitCommon

\* a caller of the package that holds a Client and calls TestConnection
InitCaller ==
    /\ cmd = "caller"
    /\ rev \in {"stat", "rules"}
    /\ outputFormat = "table"
    /\ namespace = <<>>
    /\ labelSelector = ""
    /\ timeoutSeconds = 0
    /\ stdoutOK = TRUE
    /\ ctx \in CallerContexts
    /\ client = "open"
    /\ pc = "conn.test"
    /\ InitCommon
    /\ env.inCluster
    /\ kubeconfigPath = ""
    /\ contextName = ""

Init == InitList \/ InitConnection \/ InitCaller

----------------------------------------------------------------------------
(* The list deployments command: cmd/list.go *)

\* runListDeployments, step 1: validateListParameters
ValidateListParameters ==
    /\ pc = "validate"
    /\ events' = Append(events, "validate")
    /\ err' = validateListParameters(outputFormat, namespace)
    /\ pc' = IF err' # NoError THEN "returned" ELSE "create"
    /\ UNCHANGED <<flagVars, result, response, cause, now, ctx, client, resolved, deployments, stdout,
                   apiCalls, exitCode>>

\* runListDeployments, step 2: createK8sClient and defer closeClient
CreateK8sClient ==
    /\ pc = "create"
    /\ \E clientsetOK \in BOOLEAN :
         LET r == CreateClient(rev, env,
                     [KubeconfigPath |-> kubeconfigPath, Context |-> contextName],
                     clientsetOK)
         IN  /\ resolved' = r.loaded
             /\ err' = r.err
    /\ events' = events \o <<"resolve">> \o (IF err' = NoError THEN <<"client">> ELSE <<>>)
    /\ client' = IF err' = NoError THEN "open" ELSE client
    /\ pc' = IF err' = NoError THEN "fetch" ELSE "returned"
    /\ UNCHANGED <<flagVars, result, response, cause, now, ctx, deployments, stdout, apiCalls, exitCode>>

\* fetchDeployments that hands an empty list to the formatter when the
\* list call fails
FetchDeploymentsRenderOnFailure ==
    /\ pc = "fetch"
    /\ ctx' = WithTimeout(Background, now, timeoutSeconds)
    /\ \E latency \in Latencies, answer \in ApiFailures :
         LET ret == CallReturn(ctx', now, latency, answer, namespace)
         IN  /\ apiCalls' = Append(apiCalls,
                    DeploymentListCall([Namespace |-> namespace, LabelSelector |-> labelSelector,
                                        FieldSelector |-> ""], ctx', now))
             /\ now' = ret.at
             /\ cause' = ret.err
    /\ response' = <<>>
    /\ err' = NoError
    /\ deployments' = <<>>
    /\ pc' = "format"
    /\ events' = events \o <<"list">>
    /\ UNCHANGED <<flagVars, result, client, resolved, stdout, exitCode>>

\* fetchDeployments that stays in place after a failed list call, so that
\* the call is issued again
FetchDeploymentsWithRetry ==
    /\ pc = "fetch"
    /\ Len(apiCalls) < 3
    /\ ctx' = WithTimeout(Background, now, timeoutSeconds)
    /\ \E latency \in Latencies, answer \in ApiFailures :
         LET ret == CallReturn(ctx', now, latency, answer, namespace)
         IN  /\ apiCalls' = Append(apiCalls,
                    DeploymentListCall([Namespace |-> namespace, LabelSelector |-> labelSelector,
                                        FieldSelector |-> ""], ctx', now))
             /\ now' = ret.at
             /\ cause' = ret.err
             /\ err' = enhanceK8sError(Wrap(<<"failed to list deployments: ">>, ret.err),
                                       namespace)
    /\ response' = <<>>
    /\ deployments' = <<>>
    /\ pc' = "fetch"
    /\ events' = events \o <<"list">>
    /\ UNCHANGED <<flagVars, result, client, resolved, stdout, exitCode>>

\* fetchDeployments that takes a timeout of zero or less to mean no timeout
FetchDeploymentsUnboundedWhenNotPositive ==
    /\ pc = "fetch"
    /\ ctx' = IF timeoutSeconds <= 0 THEN Background
              ELSE WithTimeout(Background, now, timeoutSeconds)
    /\ LET opts == [Namespace |-> namespace, LabelSelector |-> labelSelector,
                    FieldSelector |-> ""]
       IN  \E latency \in Latencies, answer \in {"ok"} \cup ApiFailures, n \in 0..MaxItems :
             LET ret == CallReturn(ctx', now, latency, answer, namespace)
             IN  /\ apiCalls' = Append(apiCalls, DeploymentListCall(opts, ctx', now))
                 /\ now' = ret.at
                 /\ cause' = ret.err
                 /\ IF ret.err # NoError
                    THEN /\ err' = enhanceK8sError(
                                       Wrap(<<"failed to list deployments: ">>, ret.err),
                                       namespace)
                         /\ response' = <<>>
                         /\ deployments' = <<>>
                         /\ pc' = "deferred"
                    ELSE /\ err' = NoError
                         /\ response' = InNamespace(ClusterItems(n),
                                                    DeploymentListCall(opts, ctx', now).namespace)
                         /\ deployments' \in convertToDeploymentInfo(response', ret.at)
                         /\ pc' = "format"
    /\ events' = events \o <<"list">> \o (IF err' = NoError THEN <<"listed">> ELSE <<>>)
    /\ UNCHANGED <<flagVars, result, client, resolved, stdout, exitCode>>

\* runListDeployments, step 3: fetchDeployments, i.e. one ListDeployments
\* call under a fresh timeout and the classification of its failure
FetchDeployments ==
    /\ pc = "fetch"
    /\ ctx' = WithTimeout(Background, now, timeoutSeconds)
    /\ LET opts == [Namespace |-> namespace, LabelSelector |-> labelSelector,
                    FieldSelector |-> ""]
       IN  \E latency \in Latencies, answer \in {"ok"} \cup ApiFailures, n \in 0..MaxItems :
             LET ret == CallReturn(ctx', now, latency, answer, namespace)
             IN  /\ apiCalls' = Append(apiCalls, DeploymentListCall(opts, ctx', now))
                 /\ now' = ret.at
                 /\ cause' = ret.err
                 /\ IF ret.err # NoError
                    THEN /\ err' = enhanceK8sError(
                                       Wrap(<<"failed to list deployments: ">>, ret.err),
                                       namespace)
                         /\ response' = <<>>
                         /\ deployments' = <<>>
                         /\ pc' = "deferred"
                    ELSE /\ err' = NoError
                         /\ response' = InNamespace(ClusterItems(n),
                                                    DeploymentListCall(opts, ctx', now).namespace)
                         /\ deployments' \in convertToDeploymentInfo(response', ret.at)
                         /\ pc' = "format"
    /\ events' = events \o <<"list">> \o (IF err' = NoError THEN <<"listed">> ELSE <<>>)
    /\ UNCHANGED <<flagVars, result, client, resolved, stdout, exitCode>>

\* runListDeployments, step 4: formatDeploymentOutput
FormatDeploymentOutput ==
    /\ pc = "format"
    /\ LET r == formatDeploymentOutput(deployments, outputFormat, namespace, stdoutOK)
       IN  /\ stdout' = stdout \o r.out
           /\ err' = r.err
    /\ events' = Append(events, "render")
    /\ pc' = "deferred"
    /\ UNCHANGED <<flagVars, result, response, cause, now, ctx, client, resolved, deployments, apiCalls, exitCode>>

\* runListDeployments returns: the deferred closeClient runs
CloseClient ==
    /\ pc = "deferred"
    /\ events' = Append(events, "close")
    /\ client' = "closed"
    /\ pc' = "returned"
    /\ UNCHANGED <<flagVars, result, response, cause, now, ctx, resolved, deployments, err, stdout,
                   apiCalls, exitCode>>

\* listDeploymentsCmd.Run after runListDeployments: os.Exit(1) on error
ListExit ==
    /\ pc = "returned"
    /\ exitCode' = IF err # NoError THEN 1 ELSE 0
    /\ events' = Append(events, "exit")
    /\ pc' = "exited"
    /\ UNCHANGED <<flagVars, result, response, cause, now, ctx, client, resolved, deployments, err, stdout,
                   apiCalls>>

----------------------------------------------------------------------------
(* The connection command: cmd/connection.go *)

\* connectionCmd.Run up to the deferred Close: the timeout context, then
\* CreateClient, which takes some time; os.Exit(1) when it fails
ConnCreateClient ==
    /\ pc = "conn.create"
    /\ ctx' = WithTimeout(Background, now, timeoutSeconds)
    /\ \E clientsetOK \in BOOLEAN :
         LET r == CreateClient(rev, env,
                     [KubeconfigPath |-> kubeconfigPath, Context |-> contextName],
                     clientsetOK)
         IN  /\ resolved' = r.loaded
             /\ err' = r.err
    /\ \E elapsed \in {0, 2} : now' = now + elapsed
    /\ IF err' = NoError
       THEN /\ client' = "open"
            /\ events' = events \o <<"resolve", "client">>
            /\ pc' = "conn.test"
            /\ exitCode' = exitCode
       ELSE /\ client' = client
            /\ events' = events \o <<"resolve", "exit">>
            /\ pc' = "exited"
            /\ exitCode' = 1
    /\ UNCHANGED <<flagVars, result, response, cause, deployments, stdout, apiCalls>>

\* Client.TestConnection, first part: the limit-1 namespace listing under
\* the test context; its failure is returned wrapped
TestConnection ==
    /\ pc = "conn.test"
    /\ \E latency \in Latencies, answer \in {"ok"} \cup ApiFailures :
         LET call == NamespaceListCall(rev, ctx, now)
             ret == CallReturn(call.ctx, now, latency, answer, <<>>)
         IN  /\ apiCalls' = Append(apiCalls, call)
             /\ now' = ret.at
             /\ cause' = ret.err
             /\ err' = IF ret.err # NoError
                       THEN Wrap(<<"failed to connect to Kubernetes API: ">>, ret.err)
                       ELSE NoError
             /\ pc' = IF ret.err # NoError THEN "conn.failed"
                      ELSE IF rev = "rules" THEN "conn.version" ELSE "conn.tested"
    /\ events' = events \o <<"list">> \o (IF err' = NoError THEN <<"listed">> ELSE <<>>)
    /\ UNCHANGED <<flagVars, result, response, ctx, client, resolved, deployments, stdout, exitCode>>

\* the server version lookup with its failure returned to the caller
TestConnectionServerVersionFatal ==
    /\ pc = "conn.version"
    /\ \E latency \in Latencies, answer \in {"ok", "internal"} :
         /\ apiCalls' = Append(apiCalls, ServerVersionCall(now))
         /\ now' = now + latency
         /\ cause' = IF answer = "ok" THEN NoError ELSE ApiError(answer, <<>>)
    /\ err' = IF cause' = NoError THEN NoError
              ELSE Wrap(<<"failed to connect to Kubernetes API: ">>, cause')
    /\ events' = Append(events, "version")
    /\ pc' = IF cause' = NoError THEN "conn.tested" ELSE "conn.failed"
    /\ UNCHANGED <<flagVars, result, response, ctx, client, resolved, deployments, stdout, exitCode>>

\* Client.TestConnection, second part (revision "rules"): the server
\* version lookup, whose failure only changes what is logged
TestConnectionServerVersion ==
    /\ pc = "conn.version"
    /\ \E latency \in Latencies, answer \in {"ok", "internal"} :
         /\ apiCalls' = Append(apiCalls, ServerVersionCall(now))
         /\ now' = now + latency
         /\ cause' = IF answer = "ok" THEN NoError ELSE ApiError(answer, <<>>)
    /\ events' = Append(events, "version")
    /\ pc' = "conn.tested"
    /\ UNCHANGED <<flagVars, result, response, ctx, client, resolved, deployments, err, stdout, exitCode>>

\* connectionCmd.Run when TestConnection failed: os.Exit(1) ends the process
\* at once, so the deferred Close and cancel do not run
ConnExitFailure ==
    /\ pc = "conn.failed"
    /\ cmd = "connection"
    /\ exitCode' = 1
    /\ events' = Append(events, "exit")
    /\ pc' = "exited"
    /\ UNCHANGED <<flagVars, result, response, cause, now, ctx, client, resolved, deployments, err, stdout,
                   apiCalls>>

\* connectionCmd.Run when TestConnection succeeded: Run returns, the deferred
\* Close runs, the process ends with status 0
ConnReturn ==
    /\ pc = "conn.tested"
    /\ cmd = "connection"
    /\ client' = "closed"
    /\ exitCode' = 0
    /\ events' = events \o <<"close", "exit">>
    /\ pc' = "exited"
    /\ UNCHANGED <<flagVars, result, response, cause, now, ctx, resolved, deployments, err, stdout, apiCalls>>

\* a direct caller of TestConnection gets its result back
CallerReturn ==
    /\ pc \in {"conn.tested", "conn.failed"}
    /\ cmd = "caller"
    /\ exitCode' = 0
    /\ events' = Append(events, "exit")
    /\ pc' = "exited"
    /\ UNCHANGED <<flagVars, result, response, cause, now, ctx, client, resolved, deployments, err, stdout,
                   apiCalls>>

----------------------------------------------------------------------------
(* Specification *)

Next ==
    \/ ValidateListParameters
    \/ CreateK8sClient
    \/ FetchDeployments
    \/ FormatDeploymentOutput
    \/ CloseClient
    \/ ListExit
    \/ ConnCreateClient
    \/ TestConnection
    \/ TestConnectionServerVersion
    \/ ConnExitFailure
    \/ ConnReturn
    \/ CallerReturn

Spec == Init /\ [][Next]_vars

TypeOK ==
    /\ cmd \in {"list", "connection", "caller", "ListDeployments", "enhanceK8sError",
                "validateNamespace", "validateOutputFormat", "formatDeploymentOutput",
                "formatAge", "formatImages", "truncateString", "extractImages"}
    /\ pc \in {"validate", "create", "fetch", "format", "deferred", "returned",
               "conn.create", "conn.test", "conn.version", "conn.tested",
               "conn.failed", "exited", "call", "done"}
    /\ client \in {"none", "open", "closed"}
    /\ exitCode \in {-1, 0, 1}

----------------------------------------------------------------------------
(* The functions of the two packages called directly, as their tests call  *)
(* them: the arguments are drawn in the initial state, one step applies    *)
(* the function and leaves its result in the state.                        *)

\* longest namespace argument tried
MaxNsInputLen == 64

NsMissing == <<"m","i","s","s","i","n","g","-","n","s">>

\* characters tried in namespace arguments: valid ones, upper case,
\* punctuation, a blank and a non-ASCII letter (written as its code point)
CharSamples == {"a", "z", "0", "9", "-", "A", "Z", "_", ".", "/", " ", "U+00E9"}

\* the string of n letters "a" with the character c at position pos
Filled(n, pos, c) == [i \in 1..n |-> IF i = pos THEN c ELSE "a"]

\* the string of n letters "a" that starts with c1 and ends with c2
Marked(n, c1, c2) == [i \in 1..n |-> IF i = 1 THEN c1 ELSE IF i = n THEN c2 ELSE "a"]

\* namespace arguments: every length up to the bound, with each sample
\* character first, in the middle and last, and short and long ones with
\* every pair of sample characters first and last
NamespaceInputs ==
    {<<>>, NsDefault, NsKube, NsMissing, NsLeadingHyphen}
    \cup UNION {{Filled(n, pos, c) : pos \in {1, (n + 1) \div 2, n}, c \in CharSamples} :
                 n \in 1..MaxNsInputLen}
    \cup {Marked(n, c1, c2) : n \in {2, 3, MaxNamespaceLen, MaxNsInputLen},
                               c1 \in CharSamples, c2 \in CharSamples}

FormatInputs == {"table", "json", "yaml", "", "Table", "JSON", "YAML", "yml", "wide"}

FieldSelectors == {"", "metadata.name=app-1"}

ListNamespaces == {<<>>, NsDefault, NsKube, NsMissing}

\* errors handed to the classifier: what the API and the context return,
\* messages in which two of the phrases looked for occur, each bare and
\* wrapped as Client.ListDeployments wraps it
CauseInputs ==
    LET bare == {ApiError(kind, NsMissing) : kind \in ApiFailures}
                \cup {CtxError(Cancelled(Background)), CtxError(Background)}
                \cup {NewError(<<"deployments.apps is ", "forbidden",
                                 ": namespaces \"missing-ns\" ", "not found">>),
                      NewError(<<"proxy error: ", "forbidden", ": dial tcp: ",
                                 "connection refused">>),
                      NewError(<<"endpoint ", "not found", ": ", "connection refused">>)}
    IN  bare \cup {Wrap(<<"failed to list deployments: ">>, e) : e \in bare}

\* record lists handed to the formatter: what convertToDeploymentInfo makes
\* of the first n deployments of the cluster at two different times, and of
\* those of them that lie in one namespace
RecordInputs ==
    UNION {convertToDeploymentInfo(InNamespace(ClusterItems(n), ns), t) :
             n \in 0..(MaxItems + 1), ns \in {<<>>, NsDefault}, t \in {0, 30}}

\* the part of the state a direct call does not use
InitCall ==
    /\ rev = "rules"
    /\ kubeconfigPath = ""
    /\ contextName = ""
    /\ timeoutSeconds = 0
    /\ env = [inCluster |-> TRUE, KUBECONFIG |-> "", HOME |-> "",
              files |-> Files("absent", "absent", "absent")]
    /\ pc = "call"
    /\ now = 0
    /\ result = <<>>
    /\ resolved = NoResolution
    /\ response = <<>>
    /\ err = NoError
    /\ stdout = <<>>
    /\ events = <<>>
    /\ apiCalls = <<>>
    /\ exitCode = -1

InitListDeployments ==
    /\ cmd = "ListDeployments"
    /\ namespace \in ListNamespaces
    /\ labelSelector \in Selectors
    /\ fieldSelector \in FieldSelectors
    /\ ctx \in CallerContexts
    /\ client = "open"
    /\ outputFormat = "table"
    /\ stdoutOK = TRUE
    /\ cause = NoError
    /\ deployments = <<>>
    /\ arg = <<>>
    /\ InitCall

InitEnhanceK8sError ==
    /\ cmd = "enhanceK8sError"
    /\ namespace \in {<<>>, NsDefault, NsMissing}
    /\ cause \in CauseInputs
    /\ labelSelector = ""
    /\ fieldSelector = ""
    /\ ctx = Background
    /\ client = "none"
    /\ outputFormat = "table"
    /\ stdoutOK = TRUE
    /\ deployments = <<>>
    /\ arg = <<>>
    /\ InitCall

InitValidateNamespace ==
    /\ cmd = "validateNamespace"
    /\ namespace \in NamespaceInputs
    /\ cause = NoError
    /\ labelSelector = ""
    /\ fieldSelector = ""
    /\ ctx = Background
    /\ client = "none"
    /\ outputFormat = "table"
    /\ stdoutOK = TRUE
    /\ deployments = <<>>
    /\ arg = <<>>
    /\ InitCall

InitValidateOutputFormat ==
    /\ cmd = "validateOutputFormat"
    /\ outputFormat \in FormatInputs
    /\ namespace = <<>>
    /\ cause = NoError
    /\ labelSelector = ""
    /\ fieldSelector = ""
    /\ ctx = Background
    /\ client = "none"
    /\ stdoutOK = TRUE
    /\ deployments = <<>>
    /\ arg = <<>>
    /\ InitCall

InitFormatDeploymentOutput ==
    /\ cmd = "formatDeploymentOutput"
    /\ outputFormat \in FormatInputs
    /\ namespace \in {<<>>, NsDefault}
    /\ deployments \in RecordInputs
    /\ stdoutOK \in BOOLEAN
    /\ cause = NoError
    /\ labelSelector = ""
    /\ fieldSelector = ""
    /\ ctx = Background
    /\ client = "none"
    /\ arg = <<>>
    /\ InitCall

\* the longest age tried, in days
MaxAgeDays == 5

\* ages in seconds: every one up to two minutes, then each whole minute of
\* the first hour and each whole hour up to the bound, with the second
\* before and the second after it
AgeInputs ==
    (0..(2 * Minute))
    \cup {m * Minute + e : m \in 1..60, e \in {-1, 0, 1}}
    \cup {h * Hour + e : h \in 1..(24 * MaxAgeDays), e \in {-1, 0, 1}}

\* the longest string handed to truncateString
MaxStrLen == 8

\* the text of n characters that starts with the letter c and goes on with
\* the last digit of each position
Text(c, n) == [k \in 1..n |-> IF k = 1 THEN c ELSE ToString(k % 10)]

TruncateInputs ==
    {[s |-> Text("a", n), maxLen |-> m] : n \in 0..MaxStrLen, m \in 0..(MaxStrLen + 1)}

\* the most images in one list
MaxImages == 5

\* image name lengths around the three truncation widths
ImageLens == {5, 25, 26, 30, 31, 40, 41}

ImageLetters == <<"a", "b", "c", "d", "e", "f", "g", "h">>

\* image lists of every length up to the bound: the first two names of every
\* length, the third short or long, the others short
ImageLists ==
    UNION {{[i \in 1..n |-> Text(ImageLetters[i],
                                  IF i = 1 THEN l1 ELSE IF i = 2 THEN l2
                                  ELSE IF i = 3 THEN l3 ELSE 5)] :
              l1 \in ImageLens, l2 \in ImageLens, l3 \in {5, 31}} :
           n \in 0..MaxImages}

\* the most containers and the most init containers of one pod template
MaxContainers == 3
MaxInitContainers == 2

ImgBusybox == <<"b","u","s","y","b","o","x">>

\* the sequences over S of length up to n
SeqsUpTo(S, n) == UNION {[1..k -> S] : k \in 0..n}

\* pod templates: every list of containers and of init containers up to the
\* bounds whose images are three names or empty
PodTemplates ==
    {[containers |-> cs, initContainers |-> ics] :
       cs \in SeqsUpTo({ImgNginx, ImgRedis, ImgBusybox, <<>>}, MaxContainers),
       ics \in SeqsUpTo({ImgNginx, ImgRedis, ImgBusybox, <<>>}, MaxInitContainers)}

\* the part of the state a function of its arguments alone does not use
InitPureCall ==
    /\ namespace = <<>>
    /\ outputFormat = "table"
    /\ cause = NoError
    /\ labelSelector = ""
    /\ fieldSelector = ""
    /\ ctx = Background
    /\ client = "none"
    /\ stdoutOK = TRUE
    /\ deployments = <<>>
    /\ InitCall

InitFormatAge ==
    /\ cmd = "formatAge"
    /\ arg \in AgeInputs
    /\ InitPureCall

InitTruncateString ==
    /\ cmd = "truncateString"
    /\ arg \in TruncateInputs
    /\ InitPureCall

InitFormatImages ==
    /\ cmd = "formatImages"
    /\ arg \in ImageLists
    /\ InitPureCall

InitExtractImages ==
    /\ cmd = "extractImages"
    /\ arg \in PodTemplates
    /\ InitPureCall

InitCalls ==
    \/ InitExtractImages
    \/ InitFormatAge
    \/ InitTruncateString
    \/ InitFormatImages
    \/ InitListDeployments
    \/ InitEnhanceK8sError
    \/ InitValidateNamespace
    \/ InitValidateOutputFormat
    \/ InitFormatDeploymentOutput

\* Client.ListDeployments: one list call, its failure wrapped, its items
\* converted
CallListDeployments ==
    /\ pc = "call"
    /\ cmd = "ListDeployments"
    /\ \E latency \in Latencies, answer \in {"ok"} \cup ApiFailures, n \in 0..MaxItems :
         LET call == DeploymentListCall([Namespace |-> namespace,
                                         LabelSelector |-> labelSelector,
                                         FieldSelector |-> fieldSelector], ctx, now)
             ret == CallReturn(ctx, now, latency, answer, namespace)
         IN  /\ apiCalls' = Append(apiCalls, call)
             /\ now' = ret.at
             /\ cause' = ret.err
             /\ IF ret.err # NoError
                THEN /\ err' = Wrap(<<"failed to list deployments: ">>, ret.err)
                     /\ response' = <<>>
                     /\ deployments' = <<>>
                ELSE /\ err' = NoError
                     /\ response' = InNamespace(ClusterItems(n), call.namespace)
                     /\ deployments' \in convertToDeploymentInfo(response', ret.at)
    /\ pc' = "done"
    /\ UNCHANGED <<flagVars, result, ctx, client, resolved, stdout, events, exitCode>>

CallEnhanceK8sError ==
    /\ pc = "call"
    /\ cmd = "enhanceK8sError"
    /\ err' = enhanceK8sError(cause, namespace)
    /\ pc' = "done"
    /\ UNCHANGED <<flagVars, result, response, cause, now, ctx, client, resolved, deployments,
                   stdout, events, apiCalls, exitCode>>

CallValidateNamespace ==
    /\ pc = "call"
    /\ cmd = "validateNamespace"
    /\ err' = validateNamespace(namespace)
    /\ pc' = "done"
    /\ UNCHANGED <<flagVars, result, response, cause, now, ctx, client, resolved, deployments,
                   stdout, events, apiCalls, exitCode>>

CallValidateOutputFormat ==
    /\ pc = "call"
    /\ cmd = "validateOutputFormat"
    /\ err' = validateOutputFormat(outputFormat)
    /\ pc' = "done"
    /\ UNCHANGED <<flagVars, result, response, cause, now, ctx, client, resolved, deployments,
                   stdout, events, apiCalls, exitCode>>

CallFormatDeploymentOutput ==
    /\ pc = "call"
    /\ cmd = "formatDeploymentOutput"
    /\ LET r == formatDeploymentOutput(deployments, outputFormat, namespace, stdoutOK)
       IN  /\ stdout' = stdout \o r.out
           /\ err' = r.err
    /\ pc' = "done"
    /\ UNCHANGED <<flagVars, result, response, cause, now, ctx, client, resolved, deployments,
                   events, apiCalls, exitCode>>

\* what a function of its arguments alone leaves as it is
pureVars == <<response, cause, now, ctx, client, resolved, deployments, err, stdout,
              events, apiCalls, exitCode>>

CallFormatAge ==
    /\ pc = "call"
    /\ cmd = "formatAge"
    /\ result' = formatAge(arg)
    /\ pc' = "done"
    /\ UNCHANGED <<flagVars, pureVars>>

CallTruncateString ==
    /\ pc = "call"
    /\ cmd = "truncateString"
    /\ result' = truncateString(arg.s, arg.maxLen)
    /\ pc' = "done"
    /\ UNCHANGED <<flagVars, pureVars>>

CallFormatImages ==
    /\ pc = "call"
    /\ cmd = "formatImages"
    /\ result' = formatImages(arg)
    /\ pc' = "done"
    /\ UNCHANGED <<flagVars, pureVars>>

\* extractImages returns one of the orderings of the image set
CallExtractImages ==
    /\ pc = "call"
    /\ cmd = "extractImages"
    /\ result' \in extractImages(arg)
    /\ pc' = "done"
    /\ UNCHANGED <<flagVars, pureVars>>

NextCalls ==
    \/ CallExtractImages
    \/ CallFormatAge
    \/ CallTruncateString
    \/ CallFormatImages
    \/ CallListDeployments
    \/ CallEnhanceK8sError
    \/ CallValidateNamespace
    \/ CallValidateOutputFormat
    \/ CallFormatDeploymentOutput

\* the functions called directly
SpecCalls == InitCalls /\ [][NextCalls]_vars

\* the commands and the direct calls together
SpecAll == (Init \/ InitCalls) /\ [][Next \/ NextCalls]_vars

----------------------------------------------------------------------------
(* Properties of the list deployments command *)

\* one of the two validators rejects the flags of this invocation
InputRejected ==
    validateOutputFormat(outputFormat) # NoError \/ validateNamespace(namespace) # NoError

\* the error runListDeployments returns for rejected flags
RejectionError ==
    IF validateOutputFormat(outputFormat) # NoError
    THEN Wrap(<<"invalid output format: ">>, validateOutputFormat(outputFormat))
    ELSE Wrap(<<"invalid namespace: ">>, validateNamespace(namespace))

\* C1: in runListDeployments validation comes first; when validateOutputFormat
\* or validateNamespace fails, the run ends with that error and the
\* invocation has resolved no configuration, created no client and issued no
\* API call.
C1_ValidationFirst ==
    cmd = "list" =>
        /\ events # <<>> => events[1] = "validate"
        /\ InputRejected =>
             /\ Range(events) \subseteq {"validate", "exit"}
             /\ resolved = NoResolution
             /\ client = "none"
             /\ apiCalls = <<>>
             /\ pc \in {"validate", "returned", "exited"}
             /\ pc # "validate" => err = RejectionError

\* a run with a rejected namespace has ended with exit code 1
C1_Witness ==
    /\ cmd = "list"
    /\ validateOutputFormat(outputFormat) = NoError
    /\ validateNamespace(namespace) # NoError
    /\ pc = "exited"
    /\ exitCode = 1

\* C2: rendering starts only after client creation and ListDeployments have
\* both succeeded; a run that fails in validation, configuration, client
\* creation or listing has written nothing to stdout.
C2_RenderAfterFetch ==
    cmd = "list" =>
        /\ "render" \in Range(events) =>
             IsPrefix(<<"validate", "resolve", "client", "list", "listed", "render">>, events)
        /\ "render" \notin Range(events) => stdout = <<>>
        /\ (pc = "exited" /\ "listed" \notin Range(events)) => stdout = <<>>

\* a run has rendered a non-empty record list and ended
C2_Witness ==
    /\ cmd = "list"
    /\ pc = "exited"
    /\ stdout # <<>>
    /\ deployments # <<>>

\* C3: once CreateClient has succeeded, Client.Close is invoked exactly once
\* before the process ends, on every exit path of both commands, and never
\* when CreateClient failed.
C3_CloseExactlyOnce ==
    (cmd \in {"list", "connection"} /\ pc = "exited") =>
        Count(events, "close") = (IF "client" \in Range(events) THEN 1 ELSE 0)

\* rendering succeeded: the output reached stdout (every rendering, also of
\* an empty list, writes at least one line)
Rendered == "render" \in Range(events) /\ stdout # <<>>

\* C4: the list deployments command exits with code 0 iff validation, client
\* creation, listing and rendering all succeed; a failure at any stage makes
\* runListDeployments return an error and the process exit non-zero.
C4_ExitCode ==
    (cmd = "list" /\ pc = "exited") =>
        /\ exitCode = 0 <=>
             (~InputRejected /\ "client" \in Range(events)
              /\ "listed" \in Range(events) /\ Rendered)
        /\ exitCode # 0 <=> err # NoError

\* C5: one invocation of runListDeployments performs at most one
\* configuration resolution, at most one list call and at most one render
\* pass, in that order; after a failed list call no further call is issued.
C5_AtMostOnce ==
    cmd = "list" =>
        /\ Count(events, "resolve") <= 1
        /\ Count(events, "list") <= 1
        /\ Count(events, "render") <= 1
        /\ Len(apiCalls) = Count(events, "list")
        /\ \A i \in 1..Len(apiCalls) : apiCalls[i].op = "deployments.list"
        /\ "list" \in Range(events) =>
             /\ "resolve" \in Range(events)
             /\ FirstIndex(events, "resolve") < FirstIndex(events, "list")
        /\ "render" \in Range(events) =>
             /\ "list" \in Range(events)
             /\ FirstIndex(events, "list") < FirstIndex(events, "render")

\* a run whose list call failed has ended, with that one call
C5_Witness ==
    /\ cmd = "list"
    /\ pc = "exited"
    /\ "list" \in Range(events)
    /\ "listed" \notin Range(events)
    /\ Len(apiCalls) = 1
    /\ exitCode = 1

----------------------------------------------------------------------------
(* Properties of configuration resolution *)

Resolved == "resolve" \in Range(events)

\* C6: whenever in-cluster configuration is available, LoadKubeconfig returns
\* it, whatever KubeconfigPath and Context are, and consults no kubeconfig
\* file.
C6_InClusterPriority ==
    (Resolved /\ env.inCluster) =>
        /\ resolved.err = NoError
        /\ resolved.config = InClusterConfig
        /\ resolved.consulted = {}

\* in-cluster, with an explicit path that does not exist and an unknown context
C6_Witness ==
    /\ Resolved
    /\ env.inCluster
    /\ kubeconfigPath = ExplicitFile
    /\ env.files[ExplicitFile] = "absent"
    /\ contextName = "nope"
    /\ resolved.config = InClusterConfig

\* C7: not in-cluster and KubeconfigPath non-empty: only that path is used;
\* when the file is absent or unreadable the call fails and never falls back
\* to $KUBECONFIG or the home-directory default.
C7_ExplicitPathOnly ==
    (Resolved /\ ~env.inCluster /\ kubeconfigPath # "") =>
        /\ resolved.consulted = {kubeconfigPath}
        /\ resolved.config.paths \subseteq {kubeconfigPath}
        /\ env.files[kubeconfigPath] \in {"absent", "unreadable"} =>
             /\ resolved.err # NoError
             /\ resolved.config = NoConfig

\* the explicit file is absent while both fallback locations would load
C7_Witness ==
    /\ Resolved
    /\ ~env.inCluster
    /\ kubeconfigPath = ExplicitFile
    /\ env.files[ExplicitFile] = "absent"
    /\ env.KUBECONFIG = EnvFile
    /\ env.files[EnvFile] = "ok"
    /\ env.files[HomeFile] = "ok"
    /\ resolved.err # NoError

\* C8: every resolution failure of LoadKubeconfig yields an error that
\* carries the attempted configuration path, and for a missing file given
\* explicitly the message is exactly "kubeconfig file not found at <path>".
C8_ErrorCarriesPath ==
    (Resolved /\ resolved.err # NoError) =>
        /\ resolved.consulted \cap Range(ErrorText(resolved.err)) # {}
        /\ (kubeconfigPath # "" /\ env.files[kubeconfigPath] = "absent") =>
             ErrorText(resolved.err) = <<"kubeconfig file not found at ", kubeconfigPath>>

----------------------------------------------------------------------------
(* Properties of Client.TestConnection *)

\* the network calls TestConnection has issued
TestConnectionCalls ==
    {i \in 1..Len(apiCalls) : apiCalls[i].op \in {"namespaces.list", "serverVersion"}}

\* C9: the deadline of the context passed to the namespace listing is
\* min(caller's deadline, call time + 10s): a caller deadline at most 10
\* seconds away is passed through unmodified, an absent or later one is
\* replaced by a derived 10 second timeout, and the effective deadline is
\* never later than the caller's.
C9_TimeoutPolicy ==
    \A i \in 1..Len(apiCalls) :
        apiCalls[i].op = "namespaces.list" =>
            LET call == apiCalls[i]
                t == call.issuedAt
            IN  /\ call.ctx.hasDeadline
                /\ call.ctx.deadline = IF ctx.hasDeadline THEN Min(ctx.deadline, t + 10)
                                       ELSE t + 10
                /\ (ctx.hasDeadline /\ ctx.deadline - t <= 10) => call.ctx = ctx
                /\ (~ctx.hasDeadline \/ ctx.deadline - t > 10) => call.ctx.deadline = t + 10
                /\ ctx.hasDeadline => call.ctx.deadline <= ctx.deadline

\* a caller deadline three seconds away has been passed through
C9_Witness ==
    \E i \in 1..Len(apiCalls) :
        /\ apiCalls[i].op = "namespaces.list"
        /\ rev = "rules"
        /\ ctx.hasDeadline
        /\ ctx.deadline - apiCalls[i].issuedAt = 3
        /\ apiCalls[i].ctx.deadline = apiCalls[i].issuedAt + 3

\* C10: every network call TestConnection issues, the namespace listing and
\* the server version lookup, is bounded by a deadline, so that TestConnection
\* has returned by the deadline of its test context.
C10_EveryCallBounded ==
    /\ \A i \in TestConnectionCalls : apiCalls[i].ctx.hasDeadline
    /\ \A i \in TestConnectionCalls :
         (apiCalls[i].op = "namespaces.list" /\ pc \in {"conn.tested", "conn.failed"}) =>
             now <= apiCalls[i].ctx.deadline \/ now = apiCalls[i].issuedAt

\* the position of the namespace listing among the calls issued, 0 when none
NamespaceListIndex ==
    IF \E i \in 1..Len(apiCalls) : apiCalls[i].op = "namespaces.list"
    THEN CHOOSE i \in 1..Len(apiCalls) : apiCalls[i].op = "namespaces.list"
    ELSE 0

\* C11: Client.TestConnection returns success iff the limit-1 namespace
\* listing succeeds; a failed server version lookup never turns the result
\* into an error, and the lookup is attempted only after the listing has
\* succeeded (at most once, after the one listing).
C11_SuccessIffListing ==
    cmd \in {"connection", "caller"} =>
        /\ pc \in {"conn.tested", "conn.failed"} =>
             /\ NamespaceListIndex = 1
             /\ apiCalls[1].limit = 1
             /\ err = NoError <=> "listed" \in Range(events)
             /\ pc = "conn.tested" <=> err = NoError
        /\ \A i \in 1..Len(apiCalls) :
             apiCalls[i].op = "serverVersion" =>
                 /\ i = 2
                 /\ apiCalls[1].op = "namespaces.list"
                 /\ "listed" \in Range(events)
                 /\ FirstIndex(events, "listed") < FirstIndex(events, "version")

\* TestConnection has returned success although the version lookup failed
C11_Witness ==
    /\ cmd = "caller"
    /\ pc = "conn.tested"
    /\ Len(apiCalls) = 2
    /\ apiCalls[2].op = "serverVersion"
    /\ cause # NoError
    /\ err = NoError

----------------------------------------------------------------------------
(* Properties of Client.ListDeployments *)

\* ListDeployments has returned the converted items of a successful list call
ListingSucceeded ==
    /\ cmd \in {"list", "ListDeployments"}
    /\ Len(apiCalls) = 1
    /\ apiCalls[1].op = "deployments.list"
    /\ cause = NoError

\* C12: Client.ListDeployments issues a cluster-wide list iff opts.Namespace
\* is empty and otherwise a list scoped to exactly opts.Namespace; the label
\* and field selectors of the request are those of opts, unchanged; with a
\* namespace given no record of another namespace is returned.
C12_ListScope ==
    cmd \in {"list", "ListDeployments"} =>
        /\ \A i \in 1..Len(apiCalls) :
             /\ apiCalls[i].op = "deployments.list"
             /\ apiCalls[i].namespace = <<>> <=> namespace = <<>>
             /\ apiCalls[i].namespace = namespace
             /\ apiCalls[i].labelSelector = labelSelector
             /\ apiCalls[i].fieldSelector = fieldSelector
        /\ namespace # <<>> =>
             \A i \in 1..Len(deployments) : deployments[i].namespace = namespace

\* a list scoped to the second namespace of the cluster, with both
\* selectors set, has returned that namespace's one deployment
C12_Witness ==
    /\ cmd = "ListDeployments"
    /\ pc = "done"
    /\ namespace = NsKube
    /\ labelSelector # ""
    /\ fieldSelector # ""
    /\ Len(deployments) = 1
    /\ deployments[1].namespace = NsKube

\* C13: on success Client.ListDeployments returns exactly one record per raw
\* item of the API response, in response order: record i is the
\* transformation of raw item i, nothing is dropped, added or re-sorted.
C13_OneRecordPerItem ==
    ListingSucceeded =>
        /\ Len(deployments) = Len(response)
        /\ \A i \in 1..Len(deployments) :
             \E imgs \in extractImages(response[i]) :
                 deployments[i] = createDeploymentInfo(response[i], now, imgs)

\* a cluster-wide list has returned two records for two raw items
C13_Witness ==
    /\ cmd = "ListDeployments"
    /\ pc = "done"
    /\ cause = NoError
    /\ Len(response) = 2
    /\ Len(deployments) = 2
    /\ deployments[1].name # deployments[2].name

----------------------------------------------------------------------------
(* Properties of the error classifier *)

\* the messages the classifier puts in front of the error it was given
CannotReachMessage ==
    <<"failed to connect to Kubernetes API server - is the cluster running and accessible? ">>
NoPermissionMessage ==
    <<"insufficient permissions to list deployments - check your RBAC configuration: ">>
NamespaceNotFoundMessage(ns) == <<"namespace '", ns, "' ", "not found", ": ">>
GenericMessage == <<"failed to list deployments: ">>

\* the classifier has returned
Classified == cmd = "enhanceK8sError" /\ pc = "done"

\* C14: enhanceK8sError classifies by the first matching rule in a fixed
\* order: "connection refused" gives the cannot-reach message; else
\* "forbidden" the insufficient-permissions message; else "not found" with a
\* non-empty requested namespace gives "namespace '<ns>' not found"; else the
\* generic "failed to list deployments".  A not-found failure with an empty
\* namespace and a cancellation or deadline failure are generic.
C14_RuleOrder ==
    Classified =>
        LET refused == TextContains(cause, "connection refused")
            forbidden == TextContains(cause, "forbidden")
            notFound == TextContains(cause, "not found")
            message == Head(err)
        IN  /\ err # NoError
            /\ refused => message = CannotReachMessage
            /\ (~refused /\ forbidden) => message = NoPermissionMessage
            /\ (~refused /\ ~forbidden /\ notFound /\ namespace # <<>>) =>
                  message = NamespaceNotFoundMessage(namespace)
            /\ (~refused /\ ~forbidden /\ ~(notFound /\ namespace # <<>>)) =>
                  message = GenericMessage
            /\ (notFound /\ ~refused /\ ~forbidden /\ namespace = <<>>) =>
                  message = GenericMessage
            /\ (TextContains(cause, "context canceled")
                \/ TextContains(cause, "context deadline exceeded")) =>
                  message = GenericMessage
            /\ (namespace = NsMissing /\ cause = ApiError("notfound", NsMissing)) =>
                  IsPrefix(<<"namespace '", NsMissing, "' ", "not found">>, ErrorText(err))

\* a failure that is both forbidden and not found, with a namespace
\* requested, has been classified as insufficient permissions
C14_Witness ==
    /\ Classified
    /\ namespace = NsMissing
    /\ TextContains(cause, "forbidden")
    /\ TextContains(cause, "not found")
    /\ Head(err) = NoPermissionMessage

\* C15: every error the classifier produces, in each of its four branches,
\* wraps the error it was given, so that unwrapping reaches it; the error
\* Client.ListDeployments returns on API failure wraps the cause likewise.
C15_WrapsOriginal ==
    /\ Classified =>
         /\ Head(err) \in {CannotReachMessage, NoPermissionMessage,
                            NamespaceNotFoundMessage(namespace), GenericMessage}
         /\ Unwrap(err) = cause
    /\ (cmd = "ListDeployments" /\ pc = "done" /\ cause # NoError) =>
         /\ err # NoError
         /\ Unwrap(err) = cause
    /\ (cmd = "list" /\ "list" \in Range(events) /\ "listed" \notin Range(events)) =>
         /\ cause # NoError
         /\ Unwrap(Unwrap(err)) = cause

\* a cancellation has been classified generic and still unwraps to the
\* error that was given
C15_Witness ==
    /\ Classified
    /\ cause = CtxError(Cancelled(Background))
    /\ Head(err) = GenericMessage
    /\ Unwrap(err) = cause

----------------------------------------------------------------------------
(* Properties of the validators *)

\* a namespace name as the specification of the validator describes it
ValidNamespaceName(ns) ==
    \/ ns = <<>>
    \/ /\ Len(ns) <= 63
       /\ \A i \in 1..Len(ns) : ns[i] \in LowerLetters \cup Digits \cup {"-"}
       /\ ns[1] # "-"
       /\ ns[Len(ns)] # "-"

\* C16: validateNamespace(ns) succeeds iff ns is empty, or ns has at most 63
\* characters, each a lowercase letter, a digit or a hyphen, and neither the
\* first nor the last character is a hyphen.
C16_NamespaceIff ==
    (cmd = "validateNamespace" /\ pc = "done") =>
        (err = NoError <=> ValidNamespaceName(namespace))

\* a name of 63 valid characters that ends with a hyphen has been rejected
C16_Witness ==
    /\ cmd = "validateNamespace"
    /\ pc = "done"
    /\ Len(namespace) = 63
    /\ namespace[63] = "-"
    /\ namespace[1] = "a"
    /\ err # NoError

UnsupportedFormatError(e) ==
    e # NoError /\ IsPrefix(<<"unsupported output format: ">>, ErrorText(e))

\* C18: validator and formatter agree on the closed set of formats:
\* formatDeploymentOutput returns the "unsupported output format" error,
\* writing nothing and never falling back to another format, exactly for the
\* formats validateOutputFormat rejects; so runListDeployments never ends
\* with that error.
C18_ValidatorFormatterAgree ==
    /\ (cmd = "formatDeploymentOutput" /\ pc = "done") =>
         /\ UnsupportedFormatError(err) <=> validateOutputFormat(outputFormat) # NoError
         /\ UnsupportedFormatError(err) =>
              /\ stdout = <<>>
              /\ ErrorText(err) = <<"unsupported output format: ", outputFormat>>
    /\ cmd = "list" =>
         /\ ~UnsupportedFormatError(err)
         /\ "render" \in Range(events) => validateOutputFormat(outputFormat) = NoError

\* the formatter has refused the format "JSON" and written nothing
C18_Witness ==
    /\ cmd = "formatDeploymentOutput"
    /\ pc = "done"
    /\ outputFormat = "JSON"
    /\ stdoutOK
    /\ deployments # <<>>
    /\ UnsupportedFormatError(err)
    /\ stdout = <<>>

----------------------------------------------------------------------------
(* Properties of the JSON and YAML renderings *)

\* the keys of a map node, in the order written
Keys(node) == [i \in 1..Len(node.fields) |-> node.fields[i].key]

\* the value written under a key of a map node that has it
Value(node, key) ==
    node.fields[CHOOSE i \in 1..Len(node.fields) : node.fields[i].key = key].value

\* a JSON or YAML document has been written to stdout
DocumentRendered ==
    /\ cmd \in {"list", "formatDeploymentOutput"}
    /\ outputFormat \in {"json", "yaml"}
    /\ stdout # <<>>

\* C19: for every record list, the empty one included, the JSON and the YAML
\* rendering emit an envelope with kind "DeploymentList", apiVersion
\* "apps/v1", the given records in order as items, and count equal to the
\* number of items.
C19_Envelope ==
    /\ (cmd = "formatDeploymentOutput" /\ pc = "done" /\ stdoutOK
        /\ outputFormat \in {"json", "yaml"}) => stdout # <<>>
    /\ DocumentRendered =>
         LET doc == stdout[1].doc
             items == Value(doc, "items").items
         IN  /\ Len(stdout) = 1
             /\ stdout[1].line = outputFormat
             /\ Keys(doc) = <<"kind", "apiVersion", "items", "count">>
             /\ Value(doc, "kind") = Scalar(<<"DeploymentList">>)
             /\ Value(doc, "apiVersion") = Scalar(<<"apps/v1">>)
             /\ Value(doc, "items").kind = "list"
             /\ Len(items) = Len(deployments)
             /\ \A i \in 1..Len(items) :
                  /\ Value(items[i], "name") = Scalar(deployments[i].name)
                  /\ Value(items[i], "namespace") = Scalar(deployments[i].namespace)
             /\ Value(doc, "count") = Scalar(<<ToString(Len(items))>>)

\* two records have been rendered as YAML
C19_Witness ==
    /\ cmd = "formatDeploymentOutput"
    /\ pc = "done"
    /\ outputFormat = "yaml"
    /\ Len(deployments) = 2
    /\ stdout # <<>>
    /\ Value(stdout[1].doc, "count") = Scalar(<<"2">>)

\* C20: for the same record list the JSON and the YAML rendering describe
\* the same document: the same envelope keys and, for every item, the same
\* field names (name, namespace, replicas.desired/available/ready, age,
\* images, created_at) with the same values.
C20_SameDocument ==
    DocumentRendered =>
        /\ formatDeploymentJSON(deployments) = formatDeploymentYAML(deployments)
        /\ \A i \in 1..Len(deployments) :
             /\ Keys(Value(stdout[1].doc, "items").items[i])
                  = <<"name", "namespace", "replicas", "age", "images", "created_at">>
             /\ Keys(Value(Value(stdout[1].doc, "items").items[i], "replicas"))
                  = <<"desired", "available", "ready">>

----------------------------------------------------------------------------
(* Properties of the table rendering *)

\* formatDeploymentOutput, called directly with "table" and a writable
\* standard output, has returned
TableRendered ==
    /\ cmd = "formatDeploymentOutput"
    /\ pc = "done"
    /\ outputFormat = "table"
    /\ stdoutOK

\* C21: the table has the NAMESPACE column, in its header and in every row,
\* exactly when the namespace filter of the request is empty, whatever the
\* namespaces of the records are; every row has as many columns as the
\* header, seven with the column and six without it.
C21_NamespaceColumn ==
    TableRendered /\ deployments # <<>> =>
        LET width == IF namespace = <<>> THEN 7 ELSE 6
        IN  /\ stdout[1].line = "header"
            /\ Len(stdout[1].cells) = width
            /\ ("NAMESPACE" \in Range(stdout[1].cells)) <=> (namespace = <<>>)
            /\ \A i \in 1..Len(deployments) :
                  /\ Len(stdout[i + 1].cells) = width
                  /\ stdout[i + 1].cells[1] =
                        IF namespace = <<>> THEN deployments[i].namespace
                        ELSE deployments[i].name

\* a table of all namespaces whose records all lie in one namespace, and a
\* table of one namespace is never confused with it
C21_Witness ==
    /\ TableRendered
    /\ namespace = <<>>
    /\ Len(deployments) >= 2
    /\ \A i \in 1..Len(deployments) : deployments[i].namespace = NsDefault
    /\ stdout[1].cells = HeaderAllNamespaces

\* C22: for an empty list the table output is the single line
\* "No deployments found." without a header; for n >= 1 records it is one
\* header line followed by n rows, row i describing record i.
C22_TableShape ==
    TableRendered =>
        IF deployments = <<>>
        THEN stdout = <<[line |-> "text", cells |-> <<"No deployments found.">>]>>
        ELSE /\ Len(stdout) = Len(deployments) + 1
             /\ stdout[1].line = "header"
             /\ \A i \in 1..Len(deployments) :
                   LET cells == stdout[i + 1].cells
                       d == deployments[i]
                       k == Len(cells)
                   IN  /\ stdout[i + 1].line = "row"
                       /\ cells[k - 5] = d.name
                       /\ cells[k - 4] = <<d.replicas.ready, "/", d.replicas.desired>>
                       /\ cells[k - 2] = d.replicas.available
                       /\ cells[k - 1] = formatAge(d.age)
                       /\ cells[k] = formatImages(d.images)

\* a table of several records with different names
C22_Witness ==
    /\ TableRendered
    /\ Len(deployments) >= 2
    /\ deployments[1].name # deployments[2].name
    /\ Len(stdout) = Len(deployments) + 1

\* C23: formatAge of a non-negative duration prints the whole seconds below
\* one minute, the whole minutes below one hour, the whole hours below 24
\* hours and the whole days from there on, so the number printed never
\* reaches the threshold of the next unit; 59s, 60s, 59m, 60m, 23h, 24h and
\* 120h print as 59s, 1m, 59m, 1h, 23h, 1d and 5d.
C23_FormatAge ==
    cmd = "formatAge" /\ pc = "done" =>
        /\ result = IF arg < 60 THEN <<arg, "s">>
                    ELSE IF arg < 3600 THEN <<arg \div 60, "m">>
                    ELSE IF arg < 86400 THEN <<arg \div 3600, "h">>
                    ELSE <<arg \div 86400, "d">>
        /\ result[2] \in {"s", "m"} => result[1] < 60
        /\ result[2] = "h" => result[1] < 24
        /\ \A e \in {<<59, 59, "s">>, <<60, 1, "m">>, <<3540, 59, "m">>, <<3600, 1, "h">>,
                      <<82800, 23, "h">>, <<86400, 1, "d">>, <<432000, 5, "d">>} :
              arg = e[1] => result = <<e[2], e[3]>>

\* 120 hours print as 5d
C23_Witness ==
    cmd = "formatAge" /\ pc = "done" /\ arg = 120 * Hour /\ result = <<5, "d">>

\* C25: truncateString(s, maxLen) with maxLen >= 0 returns s when s is no
\* longer than maxLen; otherwise the result has exactly maxLen characters:
\* the first maxLen - 3 of s and three dots when maxLen > 3, the bare first
\* maxLen characters of s when maxLen <= 3.
C25_TruncateString ==
    cmd = "truncateString" /\ pc = "done" =>
        IF Len(arg.s) <= arg.maxLen THEN result = arg.s
        ELSE /\ Len(result) = arg.maxLen
             /\ arg.maxLen > 3 =>
                   /\ \A k \in 1..(arg.maxLen - 3) : result[k] = arg.s[k]
                   /\ \A k \in (arg.maxLen - 2)..arg.maxLen : result[k] = "."
             /\ arg.maxLen <= 3 => \A k \in 1..arg.maxLen : result[k] = arg.s[k]

\* a string cut to a width above three
C25_Witness ==
    /\ cmd = "truncateString" /\ pc = "done"
    /\ Len(arg.s) > arg.maxLen /\ arg.maxLen > 3
    /\ result = SubSeq(arg.s, 1, arg.maxLen - 3) \o <<".", ".", ".">>

\* the string s cut to width w as the image summary shows it
Cut(str, w) == IF Len(str) <= w THEN str ELSE SubSeq(str, 1, w - 3) \o <<".", ".", ".">>

\* C24: formatImages prints "<none>" for no image, the one image cut to 40
\* characters, two or three images each cut to 30 and joined by commas in
\* the order given, and for more than three the first two cut to 25, a
\* comma between them, and " +N more" with N the number of images less two.
C24_FormatImages ==
    cmd = "formatImages" /\ pc = "done" =>
        LET n == Len(arg)
        IN  result =
              IF n = 0 THEN <<"<none>">>
              ELSE IF n = 1 THEN Cut(arg[1], 40)
              ELSE IF n = 2 THEN Cut(arg[1], 30) \o <<",">> \o Cut(arg[2], 30)
              ELSE IF n = 3 THEN Cut(arg[1], 30) \o <<",">> \o Cut(arg[2], 30)
                                 \o <<",">> \o Cut(arg[3], 30)
              ELSE Cut(arg[1], 25) \o <<",">> \o Cut(arg[2], 25)
                   \o <<" +", ToString(n - 2), " more">>

\* five images whose first name is longer than 25 characters
C24_Witness ==
    /\ cmd = "formatImages" /\ pc = "done"
    /\ Len(arg) = 5 /\ Len(arg[1]) > 25
    /\ SubSeq(result, Len(result) - 2, Len(result)) = <<" +", "3", " more">>

----------------------------------------------------------------------------
(* Properties of the record transformer *)

ImagesExtracted == cmd = "extractImages" /\ pc = "done"

\* the non-empty image names of a container list
NonEmptyImages(containers) == {img \in Range(containers) : img # <<>>}

\* C26: extractImages returns a list without an empty string and without a
\* duplicate whose elements are exactly the non-empty images of the
\* containers and the init containers together.
C26_ImageSet ==
    ImagesExtracted =>
        /\ \A i \in 1..Len(result) : result[i] # <<>>
        /\ \A i, j \in 1..Len(result) : i # j => result[i] # result[j]
        /\ Range(result) = NonEmptyImages(arg.containers)
                            \cup NonEmptyImages(arg.initContainers)

\* the images a, a, b over the containers and "", c over the init containers
C26_Witness ==
    /\ ImagesExtracted
    /\ arg.containers = <<ImgNginx, ImgNginx, ImgRedis>>
    /\ arg.initContainers = <<<<>>, ImgBusybox>>
    /\ Len(result) = 3
    /\ Range(result) = {ImgNginx, ImgRedis, ImgBusybox}

\* the non-empty elements of a list in the order of their first occurrence
RECURSIVE FirstOccurrences(_, _)
FirstOccurrences(list, seen) ==
    IF list = <<>> THEN <<>>
    ELSE IF Head(list) = <<>> \/ Head(list) \in seen
    THEN FirstOccurrences(Tail(list), seen)
    ELSE <<Head(list)>> \o FirstOccurrences(Tail(list), seen \cup {Head(list)})

\* C27: the list extractImages returns is in the order in which the images
\* first occur, so the same pod template always gives the same sequence.
C27_FirstOccurrenceOrder ==
    ImagesExtracted =>
        result = FirstOccurrences(arg.containers \o arg.initContainers, {})

\* C28: createDeploymentInfo copies the replica count of the spec as the
\* desired count, 0 when it is unset, and the available and ready counters
\* of the status; the age of every record of one ListDeployments call is
\* measured from one `now`: age + createdAt is the same instant for all of
\* them, and records created at the same time have the same age.
C28_RecordFields ==
    ListingSucceeded /\ cmd = "ListDeployments" =>
        /\ \A i \in 1..Len(deployments) :
              /\ deployments[i].replicas.desired =
                    IF response[i].replicas.set THEN response[i].replicas.value ELSE 0
              /\ deployments[i].replicas.available = response[i].availableReplicas
              /\ deployments[i].replicas.ready = response[i].readyReplicas
              /\ deployments[i].createdAt = response[i].created
              /\ deployments[i].age = now - response[i].created
        /\ \A i, j \in 1..Len(deployments) :
              /\ deployments[i].age + deployments[i].createdAt
                   = deployments[j].age + deployments[j].createdAt
              /\ deployments[i].createdAt = deployments[j].createdAt
                   => deployments[i].age = deployments[j].age

\* two records created at the same time, one of them without a replica count
C28_Witness ==
    /\ ListingSucceeded /\ cmd = "ListDeployments"
    /\ Len(deployments) = 2
    /\ deployments[1].createdAt = deployments[2].createdAt
    /\ deployments[1].age = deployments[2].age
    /\ deployments[1].age > 0 - deployments[1].createdAt
    /\ ~response[2].replicas.set
    /\ deployments[2].replicas.desired = 0

----------------------------------------------------------------------------
(* Properties of the reported validation reason *)

TooLong == NewError(<<"namespace name too long (max 63 characters)">>)
HyphenPlacement == NewError(<<"namespace name cannot start or end with hyphen">>)
InvalidCharacter(r) ==
    NewError(<<"namespace name contains invalid character '", r,
               "' (must be lowercase alphanumeric with hyphens)">>)

\* the positions of ns that break a rule: a character outside a-z, 0-9 and
\* the hyphen, or a hyphen first or last
Offending(ns) ==
    {k \in 1..Len(ns) : \/ ns[k] \notin (LowerLetters \cup Digits \cup {"-"})
                         \/ (ns[k] = "-" /\ k \in {1, Len(ns)})}

----------------------------------------------------------------------------
(* Properties of the list command's timeout *)

\* C30: the --timeout of the list command is not validated: the deadline of
\* the list call is the time of the call plus timeoutSeconds for any integer;
\* with timeoutSeconds <= 0 the one list call is issued under a context that
\* is already done and the invocation ends with the generically classified
\* deadline error: the call is never unbounded and validation never rejects
\* the timeout.
C30_TimeoutNotValidated ==
    cmd = "list" =>
        /\ Len(apiCalls) <= 1
        /\ \A i \in 1..Len(apiCalls) :
              /\ apiCalls[i].ctx.hasDeadline
              /\ apiCalls[i].ctx.deadline = apiCalls[i].issuedAt + timeoutSeconds
        /\ (~InputRejected /\ pc # "validate") =>
              (pc = "create" \/ "resolve" \in Range(events))
        /\ (timeoutSeconds <= 0 /\ "list" \in Range(events)) =>
              /\ Len(apiCalls) = 1
              /\ apiCalls[1].ctx.deadline <= apiCalls[1].issuedAt
              /\ now = apiCalls[1].issuedAt
              /\ cause = NewError(<<"context deadline exceeded">>)
              /\ err = Wrap(GenericMessage, Wrap(<<"failed to list deployments: ">>, cause))
              /\ "listed" \notin Range(events)
              /\ "render" \notin Range(events)
              /\ stdout = <<>>
              /\ pc = "exited" => exitCode = 1

\* an invocation with a negative timeout has ended after its list call
C30_Witness ==
    /\ cmd = "list"
    /\ timeoutSeconds < 0
    /\ pc = "exited"
    /\ Len(apiCalls) = 1
    /\ exitCode = 1
    /\ TextContains(err, "context deadline exceeded")

====
